---- MODULE Spec2Model ----
(***************************************************************************)
(* Cargo Clash: the tick-driven game engine (backend/app/game_engine.py),  *)
(* the Celery tasks that touch the same store (backend/app/tasks), the     *)
(* client action handlers (backend/app/routers) and the WebSocket          *)
(* connection registry (backend/app/websocket_manager.py).                 *)
(*                                                                         *)
(* Time is counted in minutes.  Each subsystem has its own specification   *)
(* over the shared variables; the variables a specification does not use   *)
(* stay at their initial value.                                            *)
(***************************************************************************)
EXTENDS Integers, Sequences, FiniteSets, TLC

Max(a, b) == IF a >= b THEN a ELSE b
Min(a, b) == IF a <= b THEN a ELSE b

(***************************************************************************)
(* Bounds of the model.                                                    *)
(***************************************************************************)
MaxPrice == 6        \* prices explored are 0..MaxPrice
MaxStock == 10       \* supply and demand explored are 0..MaxStock
MaxTime == 10        \* the clock of the market specification stops here
MaxEvents == 2       \* number of world events a run creates
MaxEventTime == 100  \* the clock of the event specification stops here
MaxPaceTime == 16    \* the clock of the pacing specification stops here
MaxHistoryTime == 2880   \* the clock of the history specification stops here
HalfDay == 720       \* the step of the clock of the history specification
LongWait == 50       \* a long step of the clock, in minutes

(***************************************************************************)
(* Python's int(x * f) on IEEE-754 doubles, for the factors the code uses. *)
(* For 0 <= x < 400 the truncated double product equals the exact integer  *)
(* quotient, except for the products with 0.7 listed in Float07Short,      *)
(* where the double product falls just below the integer (90 * 0.7 is      *)
(* 62.99999999999999).                                                     *)
(***************************************************************************)
Float07Short == {90, 170, 180, 330, 340, 350, 360}
IntMul095(x) == (x * 95) \div 100
IntMul105(x) == (x * 105) \div 100
IntMul15(x) == (x * 3) \div 2
IntMul07(x) == IF x \in Float07Short THEN ((x * 7) \div 10) - 1 ELSE (x * 7) \div 10

(***************************************************************************)
(* The world: locations, cargo kinds, market rows.                         *)
(***************************************************************************)
Locations == {1, 2}
CargoTypes == {"food", "fuel"}
MarketKeys == {<<1, "food">>}
NoEvent == 0

VARIABLES
    now,                 \* datetime.utcnow()
    last_market_update,  \* GameEngine.last_market_update
    last_event_check,    \* GameEngine.last_event_check
    market_prices,       \* table market_prices: (location_id, cargo_type) -> row
    game_events,         \* table game_events: id -> row
    event_id_seq,        \* the last id the store handed out for game_events
    active_events,       \* GameEngine.active_events: key -> GameEvent object
    price_history,       \* column price_history of market_prices: key -> (timestamp -> record)
    last_cycle           \* the time of the last market update cycle that was committed

worldVars == <<now, last_market_update, last_event_check, market_prices,
               game_events, event_id_seq, active_events, price_history, last_cycle>>

VARIABLES
    active_connections,  \* WebSocketManager.active_connections: player -> channel
    player_locations,    \* WebSocketManager.player_locations: player -> location
    location_groups,     \* WebSocketManager.location_groups: location -> players
    alliance_groups,     \* WebSocketManager.alliance_groups: alliance -> players
    accepted,            \* the channels websocket_endpoint was given: channel -> player
    broken,              \* the channels on which send_text raises
    connecting,          \* the channels whose connect awaits the welcome send
    handlers,            \* the channels whose websocket_endpoint is receiving
    calls,               \* the sends and broadcasts in flight: call id -> frame
    registry_op          \* the registry operation the last step performed

registryVars == <<active_connections, player_locations, location_groups,
                  alliance_groups, accepted, broken, connecting, handlers, calls,
                  registry_op>>

VARIABLES
    vehicles,            \* the committed vehicles table: vehicle id -> row
    players,             \* the committed players table: player id -> current_location_id
    sessions             \* the open database sessions: session -> what it loaded and changed

travelVars == <<vehicles, players, sessions>>

VARIABLES
    fleet,               \* the vehicles in combat: vehicle id -> combat columns
    combat_result,       \* the CombatResult of the last exchange
    combat_log,          \* the committed CombatLog row the last request inserted
    replay               \* an exchange run twice: its arguments, draws and outcomes

combatVars == <<fleet, combat_result, combat_log, replay>>

VARIABLES
    credits,             \* the committed Player.credits: player id -> credits
    current_cargo,       \* the committed Vehicle.current_cargo: vehicle id -> cargo type -> quantity
    request_result,      \* the last client request and how it ended
    request_seq          \* client requests served so far

tradeVars == <<credits, current_cargo, request_result, request_seq>>

VARIABLES
    missions,            \* table missions: id -> row
    reputation,          \* column reputation of table players: player -> points
    last_sweep,          \* how the last deadline sweep ended
    sweeps               \* the deadline sweeps in flight: session -> what it loaded

missionVars == <<missions, reputation, last_sweep, sweeps>>

VARIABLE
    wire                 \* the messages handed to send_text, as dicts, oldest first

VARIABLES
    is_running,          \* GameEngine.is_running
    loops,               \* the coroutines running GameEngine.start: loop id -> position
    shutdown             \* how far the server's shutdown path has come

loopVars == <<is_running, loops, shutdown>>

vars == <<worldVars, registryVars, travelVars, combatVars, loopVars, tradeVars,
          missionVars, wire>>

(***************************************************************************)
(* Economic simulator: GameEngine._process_market_updates.                 *)
(***************************************************************************)
MARKET_UPDATE_MINUTES == 5      \* 300 seconds
StockDeltas == {-10, 0, 10}     \* values of random.randint(-10, 10) explored

\* supply / max(demand, 1) > 1.5 and < 0.7, on exact quotients
Oversupply(supply, demand) == 2 * supply > 3 * Max(demand, 1)
HighDemand(supply, demand) == 10 * supply < 7 * Max(demand, 1)

\* the decay branch of the periodic update, lines 190-193
DecayedPrice(p) == Max(1, IntMul095(p))

\* the growth branch of the periodic update, lines 194-197
GrownPrice(p) == IntMul105(p)

\* one iteration of the loop over market rows, lines 179-197
UpdatedMarketRow(row, supply_change, demand_change) ==
    LET supply == Max(0, row.supply + supply_change)
        demand == Max(0, row.demand + demand_change)
    IN  IF Oversupply(supply, demand)
        THEN [row EXCEPT !.supply = supply, !.demand = demand,
                         !.buy_price = DecayedPrice(row.buy_price),
                         !.sell_price = DecayedPrice(row.sell_price)]
        ELSE IF HighDemand(supply, demand)
        THEN [row EXCEPT !.supply = supply, !.demand = demand,
                         !.buy_price = GrownPrice(row.buy_price),
                         !.sell_price = GrownPrice(row.sell_price)]
        ELSE [row EXCEPT !.supply = supply, !.demand = demand]

\* the price history of a row: records keyed by the time they were written
HISTORY_MINUTES == 1440         \* timedelta(hours=24)
EmptyHistory == <<>>
NoCycle == -1

\* the record of lines 203-208; of its four values the model keeps the first
Snapshot(row) == [buy_price |-> row.buy_price]

\* lines 200-208: the dict after the record of time t is put in
WithRecord(history, t, row) ==
    [ts \in DOMAIN history \cup {t} |-> IF ts = t THEN Snapshot(row) ELSE history[ts]]

\* lines 211-216: the records whose timestamp is after the cutoff
Pruned(history, t) ==
    [ts \in {x \in DOMAIN history : x > t - HISTORY_MINUTES} |-> history[ts]]

\* What the commit stores in the JSON column price_history (models.py line
\* 279).  The record is put into the loaded dict in place and the pruned dict
\* is assigned afterwards: the UPDATE carries the column only when the
\* assigned dict differs from the loaded one as it is at the flush, that is
\* when a record was pruned.  An empty or NULL history is replaced by a new
\* dict at line 201 before the record is put in, and is stored.
StoredHistory(loaded, mutated, assigned) ==
    IF loaded # EmptyHistory /\ assigned = mutated THEN loaded ELSE assigned

\* lines 199-216 and the commit of line 220, for one row
RecordedHistory(loaded, t, row) ==
    StoredHistory(loaded, WithRecord(loaded, t, row),
                  Pruned(WithRecord(loaded, t, row), t))

\* a stage that runs on every tick
ElapsedAlways(last, minutes) == TRUE

\* lines 165 and 246: (current_time - last).total_seconds() < interval returns
Elapsed(last, minutes) == now - last >= minutes

WithinMarketBounds(mp) ==
    \A k \in DOMAIN mp :
        /\ mp[k].buy_price <= MaxPrice /\ mp[k].sell_price <= MaxPrice
        /\ mp[k].supply <= MaxStock /\ mp[k].demand <= MaxStock

\* The economic stage of a tick.  Before the interval has elapsed the stage
\* returns at line 167 and changes nothing.  The rows are written by the one
\* commit of line 220; when that commit fails the session is rolled back and
\* only last_market_update, set at line 169, keeps its new value.
ProcessMarketUpdates ==
    /\ Elapsed(last_market_update, MARKET_UPDATE_MINUTES)
    /\ last_market_update' = now
    /\ \E sc \in [DOMAIN market_prices -> StockDeltas],
          dc \in [DOMAIN market_prices -> StockDeltas],
          commit_ok \in BOOLEAN :
          LET updated == [k \in DOMAIN market_prices |->
                            UpdatedMarketRow(market_prices[k], sc[k], dc[k])]
              recorded == [k \in DOMAIN market_prices |->
                            RecordedHistory(price_history[k], now, updated[k])]
          IN  /\ WithinMarketBounds(updated)
              /\ market_prices' = IF commit_ok THEN updated ELSE market_prices
              /\ price_history' = IF commit_ok THEN recorded ELSE price_history
              /\ last_cycle' = IF commit_ok THEN now ELSE last_cycle
    /\ UNCHANGED <<now, last_event_check, game_events, event_id_seq, active_events>>

(***************************************************************************)
(* World event generator: GameEngine._check_random_events,                 *)
(* _trigger_random_event, _create_*_event and _process_active_events.      *)
(***************************************************************************)
EVENT_CHECK_MINUTES == 10       \* 600 seconds
MARKET_SHIFT_MINUTES == 60
WEATHER_MINUTES == 45
PIRATE_MINUTES == 90
TRADE_ROUTE_MINUTES == 120
SAMPLE_SIZE == 3                \* random.sample(locations, min(3, len(locations)))
NoTime == -1                    \* a datetime attribute that is None

EventTypes == {"market_shift", "weather_change", "pirate_attack", "trade_route_blocked"}
ShiftDirections == {"surge", "crash"}

DurationOf(event_type) ==
    CASE event_type = "market_shift" -> MARKET_SHIFT_MINUTES
      [] event_type = "weather_change" -> WEATHER_MINUTES
      [] event_type = "pirate_attack" -> PIRATE_MINUTES
      [] OTHER -> TRADE_ROUTE_MINUTES

\* random.sample(locations, min(3, len(locations))) over the active locations
AffectedChoices ==
    {S \in SUBSET Locations : Cardinality(S) = Min(SAMPLE_SIZE, Cardinality(Locations))}

\* the GameEvent constructor calls; is_active defaults to True (models.py:261).
\* Of a persisted row the model keeps the columns that some operation reads.
NewEvent(event_type, cargo_type, shift_direction, location_ids) ==
    [event_type |-> event_type,
     cargo_type |-> IF event_type = "market_shift" THEN cargo_type ELSE "none",
     shift_direction |-> IF event_type = "market_shift" THEN shift_direction ELSE "none",
     affected_locations |-> location_ids,
     duration_minutes |-> DurationOf(event_type),
     is_active |-> TRUE]

\* the id the next INSERT into game_events is given
NextEventId == event_id_seq + 1

\* lines 337-340: int(price * multiplier) on the matching rows, multiplier 1.5
\* for a surge and 0.7 for a crash (line 318)
ShiftedPrice(p, shift_direction) ==
    IF shift_direction = "surge" THEN IntMul15(p) ELSE IntMul07(p)

ApplyMarketShift(mp, location_ids, cargo_type, shift_direction) ==
    [k \in DOMAIN mp |->
        IF k[1] \in location_ids /\ k[2] = cargo_type
        THEN [mp[k] EXCEPT !.buy_price = ShiftedPrice(mp[k].buy_price, shift_direction),
                           !.sell_price = ShiftedPrice(mp[k].sell_price, shift_direction)]
        ELSE mp[k]]

\* The key under which line 289 files the new event.  Only
\* _create_market_shift_event flushes (line 326), so only its event has an
\* id when line 289 reads event.id; the other three kinds are added to the
\* session without a flush and event.id is still None (key NoEvent).
IndexKey(event_type) == IF event_type = "market_shift" THEN NextEventId ELSE NoEvent

\* The object line 289 puts in the dict.  id and start_time are filled in by
\* the INSERT; an event whose INSERT never ran keeps None in both.
IndexedEvent(event_type, inserted) ==
    [id |-> IF inserted THEN NextEventId ELSE NoEvent,
     start_time |-> IF inserted THEN now ELSE NoTime,
     duration_minutes |-> DurationOf(event_type)]

SetKey(f, k, v) == [x \in DOMAIN f \cup {k} |-> IF x = k THEN v ELSE f[x]]
DropKeys(f, ks) == [x \in DOMAIN f \ ks |-> f[x]]

\* _trigger_random_event, lines 255-290.  The index is updated at line 289,
\* before the commit of line 290.  A failed commit rolls the session back: the
\* event row and the price changes are not persisted, the index entry stays.
\* For the three kinds that are not flushed the INSERT runs inside the commit,
\* so a failed commit may or may not have run it; a rolled back INSERT frees
\* its id (SQLite rowid) or burns it (a sequence).
TriggerRandomEvent(event_type, cargo_type, shift_direction, location_ids, commit_ok, inserted, id_burnt) ==
    LET flushed == event_type = "market_shift"
        shifted == IF flushed
                   THEN ApplyMarketShift(market_prices, location_ids, cargo_type,
                                         shift_direction)
                   ELSE market_prices
    IN  /\ WithinMarketBounds(shifted)
        /\ commit_ok \/ flushed => inserted
        /\ commit_ok => id_burnt
        /\ id_burnt => inserted
        /\ active_events' = SetKey(active_events, IndexKey(event_type),
                                   IndexedEvent(event_type, inserted))
        /\ event_id_seq' = IF id_burnt THEN NextEventId ELSE event_id_seq
        /\ IF commit_ok
           THEN /\ game_events' =
                     SetKey(game_events, NextEventId,
                            NewEvent(event_type, cargo_type, shift_direction,
                                     location_ids))
                /\ market_prices' = shifted
           ELSE UNCHANGED <<game_events, market_prices>>

\* _check_random_events, lines 241-253: at most one roll per interval; the
\* roll succeeds with probability 0.1.
CheckRandomEventsNoEvent ==
    /\ Elapsed(last_event_check, EVENT_CHECK_MINUTES)
    /\ last_event_check' = now
    /\ UNCHANGED <<now, last_market_update, market_prices, game_events,
                   event_id_seq, active_events, price_history, last_cycle>>

CheckRandomEventsTrigger ==
    /\ Elapsed(last_event_check, EVENT_CHECK_MINUTES)
    /\ event_id_seq < MaxEvents
    /\ Locations # {}
    /\ last_event_check' = now
    /\ \E event_type \in EventTypes, cargo_type \in CargoTypes,
          shift_direction \in ShiftDirections, location_ids \in AffectedChoices,
          commit_ok \in BOOLEAN, inserted \in BOOLEAN, id_burnt \in BOOLEAN :
          TriggerRandomEvent(event_type, cargo_type, shift_direction, location_ids,
                             commit_ok, inserted, id_burnt)
    /\ UNCHANGED <<now, last_market_update, price_history, last_cycle>>

\* lines 407-413: the keys whose deadline has passed.  No object in the index
\* has end_time set: line 419 sets it on the objects line 421 removes.
ExpiredKeys ==
    {k \in DOMAIN active_events :
        now > active_events[k].start_time + active_events[k].duration_minutes}

\* The rows that the commit of line 436 writes.  The objects in the index
\* were loaded by the session of the tick that created them, which line 63
\* closed when that tick ended; lines 418-419 assign to detached objects and
\* the session of the current tick has nothing to write.
ExpiryWrites(events, keys) == events

\* _process_active_events, lines 402-436.  start_time + timedelta raises for
\* an indexed event whose start_time is None; the stage then ends at line 411
\* before anything is removed.
ProcessActiveEvents ==
    /\ \A k \in DOMAIN active_events : active_events[k].start_time # NoTime
    /\ ExpiredKeys # {}
    /\ active_events' = DropKeys(active_events, ExpiredKeys)
    /\ game_events' = ExpiryWrites(game_events, ExpiredKeys)
    /\ UNCHANGED <<now, last_market_update, last_event_check, market_prices,
                   event_id_seq, price_history, last_cycle>>

\* The Celery task generate_random_events (game_tasks.py:175-226): the event
\* is flushed and committed by the task's own session; the engine's index
\* lives in another process and is not touched.
GenerateRandomEventsTask ==
    /\ event_id_seq < MaxEvents
    /\ Locations # {}
    /\ \E event_type \in EventTypes, cargo_type \in CargoTypes,
          shift_direction \in ShiftDirections, location_ids \in AffectedChoices :
          game_events' =
              SetKey(game_events, NextEventId,
                     NewEvent(event_type, cargo_type, shift_direction,
                              location_ids))
    /\ event_id_seq' = NextEventId
    /\ UNCHANGED <<now, last_market_update, last_event_check, market_prices,
                   active_events, price_history, last_cycle>>

(***************************************************************************)
(* The Celery task update_market_prices (market_tasks.py:30-175).          *)
(***************************************************************************)
BaseChanges == {-5, 0, 5}          \* values of random.randint(-5, 5) explored
EventMagnitudes == {5, 15}         \* values of random.randint(5, 15) explored

\* lines 125-132: the range of price_modifier
PriceModifiers(row) ==
    IF Oversupply(row.supply, row.demand) THEN {-10, -2}
    ELSE IF HighDemand(row.supply, row.demand) THEN {2, 10}
    ELSE {-3, 0, 3}

\* lines 135-152: the active market-shift events on this row's location and
\* cargo kind
ShiftEventsOn(k) ==
    {e \in DOMAIN game_events :
        /\ game_events[e].is_active
        /\ k[1] \in game_events[e].affected_locations
        /\ game_events[e].event_type = "market_shift"
        /\ game_events[e].cargo_type = k[2]}

RECURSIVE EventModifier(_, _, _)
EventModifier(k, es, magnitude) ==
    IF es = {} THEN 0
    ELSE LET e == CHOOSE x \in es : TRUE
         IN  (IF game_events[e].shift_direction = "surge"
              THEN magnitude[e] ELSE 0 - magnitude[e])
             + EventModifier(k, es \ {e}, magnitude)

\* lines 49-55: the row after the task's update
TaskUpdatedRow(row, change, supply_change, demand_change) ==
    IF change # 0
    THEN [row EXCEPT !.buy_price = Max(1, row.buy_price + change),
                     !.sell_price = Max(1, row.sell_price + change),
                     !.supply = Max(0, row.supply + supply_change),
                     !.demand = Max(0, row.demand + demand_change)]
    ELSE row

\* market_tasks.py lines 49-75: the history of a row after the task's update
TaskUpdatedHistory(history, row, change) ==
    IF change # 0 THEN RecordedHistory(history, now, row) ELSE history

\* the changes _calculate_price_change can return for a row (lines 120-156)
PriceChanges(k) ==
    {base + modifier + EventModifier(k, ShiftEventsOn(k), magnitude) :
        base \in BaseChanges, modifier \in PriceModifiers(market_prices[k]),
        magnitude \in [ShiftEventsOn(k) -> EventMagnitudes]}

\* the rows one iteration of the loop of lines 42-77 can leave
TaskRowOutcomes(k) ==
    {[row |-> TaskUpdatedRow(market_prices[k], change, sc, dc),
      price_history |->
          TaskUpdatedHistory(price_history[k],
                             TaskUpdatedRow(market_prices[k], change, sc, dc), change)] :
        change \in PriceChanges(k), sc \in StockDeltas, dc \in StockDeltas}

\* all tables that agree with `done` and hold one outcome for each key of ks
RECURSIVE TaskBatches(_, _)
TaskBatches(ks, done) ==
    IF ks = {} THEN {done}
    ELSE LET k == CHOOSE x \in ks : TRUE
         IN  UNION {TaskBatches(ks \ {k}, SetKey(done, k, outcome)) :
                      outcome \in TaskRowOutcomes(k)}

\* _update_market_prices_async: every row is updated, one commit (line 97)
UpdateMarketPricesTask ==
    /\ \E batch \in TaskBatches(DOMAIN market_prices, <<>>) :
          LET updated == [k \in DOMAIN market_prices |-> batch[k].row]
          IN  /\ WithinMarketBounds(updated)
              /\ market_prices' = updated
              /\ price_history' = [k \in DOMAIN market_prices |-> batch[k].price_history]
              /\ last_cycle' = now
    /\ UNCHANGED <<now, last_market_update, last_event_check, game_events,
                   event_id_seq, active_events>>

\* time passes
AdvanceTime(steps, horizon) ==
    /\ \E d \in steps : now + d <= horizon /\ now' = now + d
    /\ UNCHANGED <<last_market_update, last_event_check, market_prices,
                   game_events, event_id_seq, active_events, price_history, last_cycle>>

(***************************************************************************)
(* Connection registry: WebSocketManager.  Its methods run on one asyncio  *)
(* event loop: a method runs without interruption up to an await of        *)
(* websocket.send_text, where other coroutines run before it resumes.      *)
(***************************************************************************)
MaxSockets == 2      \* channels a run opens
Players == {1, 2}
Alliances == {1}
CallIds == {1}       \* sends and broadcasts that can be suspended at once
NoSocket == 0

NoSend == <<>>
IdleCall == [kind |-> "idle", pending |-> {}, visited |-> {}, size |-> 0,
             failed |-> {}, sending |-> NoSend]

\* the four maps of the registry as one value
Registry == [ac |-> active_connections, pl |-> player_locations,
             lg |-> location_groups, ag |-> alliance_groups]

\* a discard that leaves the key of an emptied set in place
DiscardKeepingKey(groups, k, p) ==
    IF k \notin DOMAIN groups THEN groups ELSE [groups EXCEPT ![k] = @ \ {p}]

\* set.discard on the set stored under key k, deleting the key when the set
\* becomes empty (lines 55-57, 134-136, 148-150)
DiscardEager(groups, k, p) ==
    IF k \notin DOMAIN groups THEN groups
    ELSE IF groups[k] \ {p} = {} THEN DropKeys(groups, {k})
    ELSE [groups EXCEPT ![k] = @ \ {p}]

\* lines 61-69: discard from every alliance group, then drop the empty ones
DiscardFromAlliances(groups, p) ==
    LET discarded == [a \in DOMAIN groups |-> groups[a] \ {p}]
    IN  [a \in {x \in DOMAIN groups : discarded[x] # {}} |-> discarded[a]]

\* a disconnect that forgets the group indices
DisconnectedConnectionOnly(reg, p) == [reg EXCEPT !.ac = DropKeys(reg.ac, {p})]

\* WebSocketManager.disconnect, lines 46-71
Disconnected(reg, p) ==
    [ac |-> DropKeys(reg.ac, {p}),
     pl |-> DropKeys(reg.pl, {p}),
     lg |-> IF p \in DOMAIN reg.pl THEN DiscardEager(reg.lg, reg.pl[p], p) ELSE reg.lg,
     ag |-> DiscardFromAlliances(reg.ag, p)]

RECURSIVE DisconnectedAll(_, _)
DisconnectedAll(reg, ps) ==
    IF ps = {} THEN reg
    ELSE LET p == CHOOSE x \in ps : TRUE
         IN  DisconnectedAll(Disconnected(reg, p), ps \ {p})

\* the indices that hold an entry for player p
Holdings(reg, p) ==
    {x \in {"connection"} : p \in DOMAIN reg.ac}
        \cup {x \in {"location"} : p \in DOMAIN reg.pl}
        \cup {x \in {"location_group"} : \E l \in DOMAIN reg.lg : p \in reg.lg[l]}
        \cup {x \in {"alliance_group"} : \E a \in DOMAIN reg.ag : p \in reg.ag[a]}

\* a registration that keeps the channel a player already has
RegisteredIfAbsent(connections, p, ws) ==
    IF p \in DOMAIN connections THEN connections ELSE SetKey(connections, p, ws)

\* lines 29-32: the assignment that registers the channel
Registered(connections, p, ws) == SetKey(connections, p, ws)

AddMember(groups, k, p) ==
    SetKey(groups, k, (IF k \in DOMAIN groups THEN groups[k] ELSE {}) \cup {p})

\* an update that leaves the player in the group it came from
LocationUpdatedKeepingOld(reg, p, l) ==
    [reg EXCEPT !.pl = SetKey(reg.pl, p, l), !.lg = AddMember(reg.lg, l, p)]

\* WebSocketManager.update_player_location, lines 128-142
LocationUpdated(reg, p, l) ==
    LET left == IF p \in DOMAIN reg.pl THEN DiscardEager(reg.lg, reg.pl[p], p)
                ELSE reg.lg
    IN  [reg EXCEPT !.pl = SetKey(reg.pl, p, l), !.lg = AddMember(left, l, p)]

\* WebSocketManager.update_player_alliance, lines 144-156; None is 0
AllianceUpdated(reg, p, alliance_id, old_alliance_id) ==
    LET left == IF old_alliance_id # 0 THEN DiscardEager(reg.ag, old_alliance_id, p)
                ELSE reg.ag
    IN  [reg EXCEPT !.ag = IF alliance_id # 0 THEN AddMember(left, alliance_id, p)
                           ELSE left]

SetRegistry(reg) ==
    /\ active_connections' = reg.ac
    /\ player_locations' = reg.pl
    /\ location_groups' = reg.lg
    /\ alliance_groups' = reg.ag

\* what the last step did: the operation, the players whose send failed
\* and is due for clean-up in this step, the players disconnect ran for, the
\* channel involved, whether the call ended and how, and the recipients of
\* the broadcast that were left unserved
Op(op, kind, failed, removed, ws, ended, outcome, left) ==
    [op |-> op, kind |-> kind, failed |-> failed, players |-> removed,
     ws |-> ws, ended |-> ended, outcome |-> outcome, left |-> left, had |-> {}]

NoOp == Op("none", "none", {}, {}, NoSocket, FALSE, "none", {})

\* a step in which no send failed and no player was removed is not recorded
Returned(op, kind, failed, removed, ws) ==
    IF failed = {} /\ removed = {} THEN NoOp
    ELSE Op(op, kind, failed, removed, ws, TRUE, "returned", {})

Running(op, kind, failed, removed, ws) ==
    IF failed = {} /\ removed = {} THEN NoOp
    ELSE Op(op, kind, failed, removed, ws, FALSE, "running", {})

FreeCall(c) == calls[c].kind = "idle"

\* the channel most recently handed to connect for player p
Channels == 1..Len(accepted)
LatestChannel(given, p) ==
    LET mine == {w \in DOMAIN given : given[w] = p}
    IN  IF mine = {} THEN NoSocket ELSE CHOOSE w \in mine : \A v \in mine : v <= w

\* deleting a key of active_connections frees its slot: a later insert of the
\* same player is a new entry, which a running dict iterator has not visited
Forget(cs, ps) == [c \in DOMAIN cs |-> [cs[c] EXCEPT !.visited = @ \ ps]]

\* lines 92-93 / 104-105 with the guard of line 75: the frames the loop over
\* players_to_notify can be in when it next suspends or ends; players that
\* are not connected are passed over without suspending
RECURSIVE NextFrames(_, _)
NextFrames(f, connections) ==
    IF f.pending = {} THEN {f}
    ELSE UNION {IF p \in DOMAIN connections
                THEN {[f EXCEPT !.pending = @ \ {p},
                                !.sending = <<p, connections[p]>>]}
                ELSE NextFrames([f EXCEPT !.pending = @ \ {p}], connections)
                : p \in f.pending}

\* line 117: the next step of the iterator over active_connections.items();
\* the iterator raises RuntimeError when the dict's size differs from its
\* size when the iteration began
IteratorRaises(f, connections) == Cardinality(DOMAIN connections) # f.size

Unvisited(f, connections) == DOMAIN connections \ f.visited

NextGlobalFrames(f, connections) ==
    {[f EXCEPT !.visited = @ \cup {p}, !.sending = <<p, connections[p]>>]
     : p \in Unvisited(f, connections)}

\* the call either suspends at its next send or returns
Proceed(c, f, op, failed, removed, ws) ==
    IF f.sending = NoSend
    THEN /\ calls' = Forget([calls EXCEPT ![c] = IdleCall], removed)
         /\ registry_op' = Returned(op, f.kind, failed, removed, ws)
    ELSE /\ calls' = Forget([calls EXCEPT ![c] = f], removed)
         /\ registry_op' = Running(op, f.kind, failed, removed, ws)

\* connect, lines 29-37, up to the await of the welcome message's send_text;
\* websocket_endpoint calls it once for each channel it is given
Connect(p) ==
    LET ws == Len(accepted) + 1
    IN  /\ Len(accepted) < MaxSockets
        /\ accepted' = Append(accepted, p)
        /\ active_connections' = Registered(active_connections, p, ws)
        /\ connecting' = connecting \cup {ws}
        /\ registry_op' = Running("connect", "connect", {}, {p}, ws)
        /\ UNCHANGED <<player_locations, location_groups, alliance_groups,
                       broken, handlers, calls>>

\* the welcome send of connect completes (lines 78-81) and connect returns to
\* websocket_endpoint, which starts receiving (main.py lines 119-123)
ConnectSendFinish(ws) ==
    LET p == accepted[ws]
        failed == IF ws \in broken THEN {p} ELSE {}
    IN  /\ ws \in connecting
        /\ SetRegistry(DisconnectedAll(Registry, failed))
        /\ connecting' = connecting \ {ws}
        /\ handlers' = handlers \cup {ws}
        /\ calls' = Forget(calls, failed)
        /\ registry_op' = Returned("send_finish", "connect", failed, failed,
                                   IF failed = {} THEN NoSocket ELSE ws)
        /\ UNCHANGED <<accepted, broken>>

\* send_personal_message, lines 73-78, up to the await of send_text
SendPersonalMessage(c, p) ==
    /\ FreeCall(c)
    /\ IF p \in DOMAIN active_connections
       THEN /\ calls' = [calls EXCEPT ![c] =
                           [IdleCall EXCEPT !.kind = "personal",
                                            !.sending = <<p, active_connections[p]>>]]
            /\ registry_op' = Running("send_start", "personal", {}, {}, NoSocket)
       ELSE /\ calls' = calls
            /\ registry_op' = Returned("send_start", "personal", {}, {}, NoSocket)
    /\ UNCHANGED <<active_connections, player_locations, location_groups,
                   alliance_groups, accepted, broken, connecting, handlers>>

\* lines 85-93 and 97-105, up to the first await of send_text
Broadcast(c, kind, groups, k, exclude_player) ==
    /\ FreeCall(c)
    /\ IF k \notin DOMAIN groups
       THEN /\ calls' = calls
            /\ registry_op' = Returned("send_start", kind, {}, {}, NoSocket)
       ELSE \E f \in NextFrames([IdleCall EXCEPT !.kind = kind,
                                     !.pending = groups[k] \ {exclude_player}],
                                active_connections) :
                Proceed(c, f, "send_start", {}, {}, NoSocket)
    /\ UNCHANGED <<active_connections, player_locations, location_groups,
                   alliance_groups, accepted, broken, connecting, handlers>>

BroadcastToLocation(c, location_id, exclude_player) ==
    Broadcast(c, "location", location_groups, location_id, exclude_player)

BroadcastToAlliance(c, alliance_id, exclude_player) ==
    Broadcast(c, "alliance", alliance_groups, alliance_id, exclude_player)

\* broadcast_global, lines 115-119, up to the first await of send_text
BroadcastGlobal(c) ==
    /\ FreeCall(c)
    /\ IF active_connections = <<>>
       THEN /\ calls' = calls
            /\ registry_op' = Returned("send_start", "global", {}, {}, NoSocket)
       ELSE \E f \in NextGlobalFrames(
                        [IdleCall EXCEPT !.kind = "global",
                             !.size = Cardinality(DOMAIN active_connections)],
                        active_connections) :
                Proceed(c, f, "send_start", {}, {}, NoSocket)
    /\ UNCHANGED <<active_connections, player_locations, location_groups,
                   alliance_groups, accepted, broken, connecting, handlers>>

\* the awaited send_text of send_personal_message completes: lines 78-81,
\* then the caller's loop over players_to_notify (lines 92-93, 104-105)
PersonalSendFinish(c) ==
    LET f == calls[c]
        p == f.sending[1]
        ws == f.sending[2]
        failed == IF ws \in broken THEN {p} ELSE {}
        reg == DisconnectedAll(Registry, failed)
    IN  /\ f.kind \in {"personal", "location", "alliance"}
        /\ f.sending # NoSend
        /\ SetRegistry(reg)
        /\ \E n \in NextFrames([f EXCEPT !.sending = NoSend], reg.ac) :
               Proceed(c, n, "send_finish", failed, failed,
                       IF failed = {} THEN NoSocket ELSE ws)
        /\ UNCHANGED <<accepted, broken, connecting, handlers>>

\* the awaited send_text of broadcast_global completes: lines 119-122, then
\* the iterator's next step (line 117) and, at its end, lines 125-126
GlobalSendFinish(c) ==
    LET f == calls[c]
        p == f.sending[1]
        ws == f.sending[2]
        g == [f EXCEPT !.sending = NoSend,
                       !.failed = IF ws \in broken THEN @ \cup {p} ELSE @]
    IN  /\ f.kind = "global"
        /\ f.sending # NoSend
        /\ IF IteratorRaises(g, active_connections)
           THEN /\ calls' = [calls EXCEPT ![c] = IdleCall]
                /\ registry_op' = Op("send_finish", "global", g.failed, {}, NoSocket,
                                     TRUE, "raised", Unvisited(g, active_connections))
                /\ UNCHANGED <<active_connections, player_locations,
                               location_groups, alliance_groups>>
           ELSE IF Unvisited(g, active_connections) = {}
           THEN /\ SetRegistry(DisconnectedAll(Registry, g.failed))
                /\ calls' = Forget([calls EXCEPT ![c] = IdleCall], g.failed)
                /\ registry_op' = Returned("send_finish", "global", g.failed,
                                           g.failed, NoSocket)
           ELSE /\ \E n \in NextGlobalFrames(g, active_connections) :
                       Proceed(c, n, "send_finish", {}, {}, NoSocket)
                /\ UNCHANGED <<active_connections, player_locations,
                               location_groups, alliance_groups>>
        /\ UNCHANGED <<accepted, broken, connecting, handlers>>

\* main.py websocket_endpoint, lines 121-128: the receive loop of the channel
\* ends with WebSocketDisconnect or another exception and calls disconnect;
\* the server closes the channel when the endpoint returns
HandlerDisconnect(ws) ==
    LET p == accepted[ws]
    IN  /\ ws \in handlers
        /\ SetRegistry(Disconnected(Registry, p))
        /\ handlers' = handlers \ {ws}
        /\ broken' = broken \cup {ws}
        /\ calls' = Forget(calls, {p})
        /\ registry_op' = [Returned("disconnect", "none", {}, {p}, ws)
                               EXCEPT !.had = Holdings(Registry, p)]
        /\ UNCHANGED <<accepted, connecting>>

\* the peer of a channel goes away: send_text on it raises from now on
ChannelBreaks(ws) ==
    /\ ws \in Channels \ broken
    /\ broken' = broken \cup {ws}
    /\ registry_op' = NoOp
    /\ UNCHANGED <<active_connections, player_locations, location_groups,
                   alliance_groups, accepted, connecting, handlers, calls>>

UpdatePlayerLocation(p, l) ==
    /\ SetRegistry(LocationUpdated(Registry, p, l))
    /\ registry_op' = [NoOp EXCEPT !.op = "update_location", !.players = {p}]
    /\ UNCHANGED <<accepted, broken, connecting, handlers, calls>>

UpdatePlayerAlliance(p, alliance_id, old_alliance_id) ==
    /\ SetRegistry(AllianceUpdated(Registry, p, alliance_id, old_alliance_id))
    /\ registry_op' = NoOp
    /\ UNCHANGED <<accepted, broken, connecting, handlers, calls>>

RegistryInit ==
    /\ active_connections = <<>>
    /\ player_locations = <<>>
    /\ location_groups = <<>>
    /\ alliance_groups = <<>>
    /\ accepted = <<>>
    /\ broken = {}
    /\ connecting = {}
    /\ handlers = {}
    /\ calls = [c \in CallIds |-> IdleCall]
    /\ registry_op = NoOp

(***************************************************************************)
(* Travel: start_travel requests, the travel stage of the tick and the     *)
(* process_vehicle_travel task.  Each runs in its own database session: it *)
(* loads rows, changes its copies, and its commit writes the columns whose *)
(* value differs from the value it loaded.                                 *)
(***************************************************************************)
Vehicles == {1}
\* create_vehicle (vehicles.py 26-78) sets no limit on the vehicles of a
\* player: the second vehicle of the first player
SecondVehicle == Cardinality(Players) + 1
Convoy == Vehicles \cup {SecondVehicle}
\* Vehicle.owner_id
Owner(v) == IF v = SecondVehicle THEN 1 ELSE v
NoLocation == 0
UnknownLocation == 9
VEHICLE_SPEED == 50
InitialFuel == 10        \* fuel of a vehicle at the start of a run
LowFuel == 4             \* fuel of a vehicle that cannot reach the other location
FuelCapacity == InitialFuel   \* fuel_capacity of the vehicles of a run
REFUEL_PRICE == 2        \* credits per fuel unit

\* the coordinates of the two locations
Coordinates(l) == IF l = 1 THEN <<0, 0>> ELSE <<30, 40>>

\* vehicles.py lines 206-207, for coordinates whose distance is a whole number
Distance(a, b) ==
    LET dx == Coordinates(b)[1] - Coordinates(a)[1]
        dy == Coordinates(b)[2] - Coordinates(a)[2]
    IN  CHOOSE r \in 0..(dx * dx + dy * dy) : r * r = dx * dx + dy * dy

\* lines 210-211: int(distance / speed * 60)
TravelTimeMinutes(distance, speed) == (distance * 60) \div speed

\* line 214: int(distance * 0.1)
FuelCost(distance) == distance \div 10

SessionIds == {"request_1", "request_2", "tick", "task"}
ClosedSession == [seen |-> <<>>, mine |-> <<>>]

\* lines 226-230 of start_travel on the loaded row
Departed(row, destination_id, fuel_cost) ==
    [row EXCEPT !.is_traveling = TRUE,
                !.destination_id = destination_id,
                !.travel_start_time = now,
                !.estimated_arrival =
                    now + TravelTimeMinutes(Distance(row.current_location_id,
                                                     destination_id), row.speed),
                !.current_fuel = @ - fuel_cost]

\* an arrival that moves the vehicle and leaves the journey's fields in place
ArrivedFlagOnly(row) ==
    [row EXCEPT !.is_traveling = FALSE,
                !.current_location_id = row.destination_id]

\* game_engine.py lines 103-107 and game_tasks.py lines 332-336
Arrived(row) ==
    [row EXCEPT !.is_traveling = FALSE,
                !.current_location_id = row.destination_id,
                !.destination_id = NoLocation,
                !.travel_start_time = NoTime,
                !.estimated_arrival = NoTime]

\* the UPDATE a commit emits for one row: the columns the session changed
Merged(stored, seen, mine) ==
    [col \in DOMAIN stored |-> IF mine[col] # seen[col] THEN mine[col] ELSE stored[col]]

Committed(table, session) ==
    [k \in DOMAIN table |->
        IF k \in DOMAIN session.mine
        THEN Merged(table[k], session.seen[k], session.mine[k])
        ELSE table[k]]

\* the owners' rows reached through vehicle.owner, as one-column rows
OwnerRow(l) == [current_location_id |-> l]

Opened(seen, mine) == [seen |-> seen, mine |-> mine]

\* start_travel, lines 158-230: load the vehicle, check, change the copy;
\* the request then awaits its commit
StartTravelLoad(s, v, destination_id) ==
    LET row == vehicles[v]
        fuel_cost == FuelCost(Distance(row.current_location_id, destination_id))
    IN  /\ s \in {"request_1", "request_2"}
        /\ sessions[s] = ClosedSession
        /\ ~row.is_traveling
        /\ destination_id \in Locations
        /\ row.current_location_id # NoLocation
        /\ row.current_fuel >= fuel_cost
        /\ sessions' = [sessions EXCEPT ![s] =
              Opened([vehicle |-> (v :> row), owner |-> <<>>],
                     [vehicle |-> (v :> Departed(row, destination_id, fuel_cost)),
                      owner |-> <<>>])]
        /\ UNCHANGED <<vehicles, players>>

\* the credits a session loaded or holds, for the sessions that touch them
Wallets(part) == IF "credits" \in DOMAIN part THEN part.credits ELSE <<>>

\* the UPDATE of Player.credits a commit emits
CommittedCredits(table, session) ==
    [p \in DOMAIN table |->
        IF p \in DOMAIN Wallets(session.mine)
              /\ Wallets(session.mine)[p] # Wallets(session.seen)[p]
        THEN Wallets(session.mine)[p]
        ELSE table[p]]

\* the commit of an open session (vehicles.py lines 232 and 281,
\* game_engine.py line 136, game_tasks.py line 342); a failed commit changes
\* nothing
Commit(s, commit_ok) ==
    /\ sessions[s] # ClosedSession
    /\ sessions' = [sessions EXCEPT ![s] = ClosedSession]
    /\ IF commit_ok
       THEN /\ vehicles' = Committed(vehicles,
                  [seen |-> sessions[s].seen.vehicle, mine |-> sessions[s].mine.vehicle])
            /\ players' = Committed(players,
                  [seen |-> sessions[s].seen.owner, mine |-> sessions[s].mine.owner])
            /\ credits' = CommittedCredits(credits, sessions[s])
       ELSE UNCHANGED <<vehicles, players, credits>>

\* a refuel that also ends the journey of the vehicle it fills
RefuelledAndParked(row) ==
    [row EXCEPT !.current_fuel = FuelCapacity, !.is_traveling = FALSE]

\* refuel_vehicle line 278 on the loaded row
Refuelled(row) == [row EXCEPT !.current_fuel = FuelCapacity]

\* refuel_vehicle, vehicles.py lines 249-279: load the vehicle, check the
\* player's credits, change the copies; the request then awaits its commit
RefuelLoad(s, v) ==
    LET row == vehicles[v]
        p == Owner(v)
        fuel_cost == (FuelCapacity - row.current_fuel) * REFUEL_PRICE
    IN  /\ s \in {"request_1", "request_2"}
        /\ sessions[s] = ClosedSession
        /\ row.current_fuel < FuelCapacity
        /\ credits[p] >= fuel_cost
        /\ sessions' = [sessions EXCEPT ![s] =
              Opened([vehicle |-> (v :> row), owner |-> <<>>,
                      credits |-> (p :> credits[p])],
                     [vehicle |-> (v :> Refuelled(row)), owner |-> <<>>,
                      credits |-> (p :> credits[p] - fuel_cost)])]
        /\ UNCHANGED <<vehicles, players, credits>>

\* the vehicles the travel stage selects, lines 87-99
Due == {v \in DOMAIN vehicles : /\ vehicles[v].is_traveling
                         /\ vehicles[v].estimated_arrival # NoTime
                         /\ vehicles[v].estimated_arrival <= now}

RECURSIVE LocationsUpdated(_, _, _)
LocationsUpdated(reg, vs, rows) ==
    IF vs = {} THEN reg
    ELSE LET v == CHOOSE x \in vs : TRUE
         IN  LocationsUpdated(
                 LocationUpdated(reg, Owner(v), rows[v].current_location_id),
                 vs \ {v}, rows)

\* _update_vehicle_travels, lines 84-133: select the due vehicles, change the
\* copies and the owners, move the owners in the registry and notify them;
\* the stage then awaits its commit.  vehicle.owner of two vehicles of one
\* player is one object of the session: the vehicle the loop of line 101
\* reaches last sets its location, and the SELECT has no ORDER BY.
UpdateVehicleTravelsLoad ==
    LET seen == [v \in Due |-> vehicles[v]]
        mine == [v \in Due |-> Arrived(vehicles[v])]
        owners == {Owner(v) : v \in Due}
    IN  /\ sessions["tick"] = ClosedSession
        /\ Due # {}
        /\ \E last \in [owners -> Due] :
              /\ \A p \in owners : Owner(last[p]) = p
              /\ sessions' = [sessions EXCEPT !["tick"] =
                    Opened([vehicle |-> seen,
                            owner |-> [p \in owners |->
                                         OwnerRow(players[p].current_location_id)]],
                           [vehicle |-> mine,
                            owner |-> [p \in owners |->
                                         OwnerRow(mine[last[p]].current_location_id)]])]
              /\ SetRegistry(LocationsUpdated(Registry, {last[p] : p \in owners}, mine))
        /\ UNCHANGED <<vehicles, players>>

\* _process_vehicle_travel_async, lines 313-339, up to its commit
ProcessVehicleTravelLoad(v) ==
    LET row == vehicles[v]
    IN  /\ sessions["task"] = ClosedSession
        /\ row.is_traveling
        /\ row.estimated_arrival # NoTime
        /\ now >= row.estimated_arrival
        /\ sessions' = [sessions EXCEPT !["task"] =
              Opened([vehicle |-> (v :> row),
                      owner |-> (Owner(v) :> OwnerRow(players[Owner(v)].current_location_id))],
                     [vehicle |-> (v :> Arrived(row)),
                      owner |-> (Owner(v) :> OwnerRow(row.destination_id))])]
        /\ UNCHANGED <<vehicles, players>>

TravelInit ==
    /\ vehicles = [v \in Vehicles |->
          [is_traveling |-> FALSE, destination_id |-> NoLocation,
           travel_start_time |-> NoTime, estimated_arrival |-> NoTime,
           current_location_id |-> 1, current_fuel |-> InitialFuel,
           speed |-> VEHICLE_SPEED]]
    /\ players = [p \in Players |-> OwnerRow(1)]
    /\ sessions = [s \in SessionIds |-> ClosedSession]

\* the same start with the two vehicles of the first player, one at each
\* location
ConvoyInit ==
    /\ vehicles = [v \in Convoy |->
          [is_traveling |-> FALSE, destination_id |-> NoLocation,
           travel_start_time |-> NoTime, estimated_arrival |-> NoTime,
           current_location_id |-> IF v = SecondVehicle THEN 2 ELSE 1,
           current_fuel |-> InitialFuel, speed |-> VEHICLE_SPEED]]
    /\ players = [p \in Players |-> OwnerRow(1)]
    /\ sessions = [s \in SessionIds |-> ClosedSession]

(***************************************************************************)
(* Combat: combat.py _execute_combat, called by attack_player.             *)
(***************************************************************************)
MaxDurability == 3       \* max_durability of the vehicles of a run
InitialCargo == 4        \* units of food each vehicle carries at the start
DEFAULT_POWER == 10
DEFAULT_DEFENSE == 10
WIN_CREDITS == 100
Fighters == {1, 2}
AttackPowers == {DEFAULT_POWER, 12}
ActionTypes == {"attack", "special_ability", "defend"}
DamageVariances == {8, 10, 12}    \* random.uniform(0.8, 1.2), in tenths
CounterVariances == {5, 8}        \* random.uniform(0.5, 0.8), in tenths
Runs == 2                         \* how often an exchange is replayed
NoWinner == 0

\* lines 315-320, in tenths
DamageMultiplier(action_type) ==
    CASE action_type = "attack" -> 10
      [] action_type = "special_ability" -> 15
      [] OTHER -> 8

\* line 323: int(base_damage * damage_multiplier * damage_variance)
FinalDamage(base_damage, action_type, damage_variance) ==
    (base_damage * DamageMultiplier(action_type) * damage_variance) \div 100

\* damage without the floor of 1
DamageUnfloored(final_damage, defense) == final_damage - defense

\* line 326
DamageAfterDefense(final_damage, defense) == Max(1, final_damage - defense)

\* lines 332-333
CounterDamage(target_attack_power, attacker_defense, counter_variance) ==
    (Max(1, target_attack_power - attacker_defense) * counter_variance) \div 10

\* lines 338-342, on the durabilities the exchange has just written
Winner(attacker, target) ==
    IF target.durability = 0 THEN attacker.owner_id
    ELSE IF attacker.durability = 0 THEN target.owner_id
    ELSE NoWinner

\* line 354
Stolen(quantity) == Min(quantity, quantity \div 4)

\* the cargo column a commit writes.  current_cargo is a plain JSON column
\* (models.py line 156): a dict that was loaded, changed in place and
\* assigned back is the object the session compares it with, so the UPDATE
\* leaves the column out; only a dict made by "or {}" (lines 352, 363), when
\* the loaded value is empty, is written
StoredCargo(loaded, assigned) == IF loaded = 0 THEN assigned ELSE loaded

\* an exchange that takes the target's durability from the store instead of
\* from the object it was handed
ExchangeOnStore(attacker, target, action_type, damage_variance, counter_variance) ==
    LET stored == [target EXCEPT !.durability = fleet[target.owner_id].durability]
        damage == DamageAfterDefense(
                      FinalDamage(attacker.attack_power, action_type, damage_variance),
                      stored.defense)
        counter == CounterDamage(stored.attack_power, attacker.defense,
                                 counter_variance)
        hit == [stored EXCEPT !.durability = Max(0, @ - damage)]
        struck == [attacker EXCEPT !.durability = Max(0, @ - counter)]
        winner_id == Winner(struck, hit)
        loot == IF winner_id = attacker.owner_id THEN Stolen(stored.food) ELSE 0
    IN  [attacker |-> [struck EXCEPT !.food = StoredCargo(@, @ + loot)],
         target |-> [hit EXCEPT !.food = StoredCargo(@, @ - loot)],
         result |-> [outcome |-> "ok",
                     winner_id |-> winner_id,
                     damage_dealt |-> damage,
                     damage_received |-> counter,
                     cargo_gained |-> loot,
                     credits_gained |-> IF winner_id = attacker.owner_id
                                        THEN WIN_CREDITS ELSE 0,
                     attacker |-> attacker.owner_id,
                     target |-> target.owner_id]]

\* _execute_combat, lines 311-382: the two rows its commit stores and the
\* result it returns
Exchange(attacker, target, action_type, damage_variance, counter_variance) ==
    LET damage == DamageAfterDefense(
                      FinalDamage(attacker.attack_power, action_type, damage_variance),
                      target.defense)
        counter == CounterDamage(target.attack_power, attacker.defense,
                                 counter_variance)
        hit == [target EXCEPT !.durability = Max(0, @ - damage)]
        struck == [attacker EXCEPT !.durability = Max(0, @ - counter)]
        winner_id == Winner(struck, hit)
        loot == IF winner_id = attacker.owner_id THEN Stolen(target.food) ELSE 0
    IN  [attacker |-> [struck EXCEPT !.food = StoredCargo(@, @ + loot)],
         target |-> [hit EXCEPT !.food = StoredCargo(@, @ - loot)],
         result |-> [outcome |-> "ok",
                     winner_id |-> winner_id,
                     damage_dealt |-> damage,
                     damage_received |-> counter,
                     cargo_gained |-> loot,
                     credits_gained |-> IF winner_id = attacker.owner_id
                                        THEN WIN_CREDITS ELSE 0,
                     attacker |-> attacker.owner_id,
                     target |-> target.owner_id]]

NoResult == [outcome |-> "none", winner_id |-> NoWinner, damage_dealt |-> 0,
             damage_received |-> 0, cargo_gained |-> 0, credits_gained |-> 0,
             attacker |-> 0, target |-> 0]

\* the request ends in an error: no CombatResult reaches the client
Failed(a, t) == [NoResult EXCEPT !.outcome = "error", !.attacker = a, !.target = t]

NoLog == [player_id |-> 0, opponent_id |-> 0, winner_id |-> NoWinner,
          damage_dealt |-> 0, damage_received |-> 0, cargo_gained |-> 0]

\* attack_player lines 92-110: the CombatLog row built from the result
CombatLog(result) ==
    [player_id |-> result.attacker, opponent_id |-> result.target,
     winner_id |-> result.winner_id, damage_dealt |-> result.damage_dealt,
     damage_received |-> result.damage_received,
     cargo_gained |-> result.cargo_gained]

\* attack_player, lines 28-115: _execute_combat commits the two vehicles
\* (line 370), then attack_player adds the CombatLog row and commits again
\* (lines 112-113); a commit that fails ends the request in an error and
\* leaves what was committed before it
AttackPlayer(a, t, action_type, damage_variance, counter_variance, commit_ok, log_ok) ==
    LET x == Exchange(fleet[a], fleet[t], action_type, damage_variance,
                      counter_variance)
    IN  /\ a # t
        /\ fleet' = IF commit_ok
                    THEN [fleet EXCEPT ![a] = x.attacker, ![t] = x.target]
                    ELSE fleet
        /\ combat_log' = IF commit_ok /\ log_ok THEN CombatLog(x.result)
                         ELSE combat_log
        /\ combat_result' = IF commit_ok /\ log_ok THEN x.result ELSE Failed(a, t)
        /\ UNCHANGED replay

NoReplay == [attacker |-> <<>>, target |-> <<>>, action_type |-> "none",
             damage_variance |-> 0, counter_variance |-> 0, outcomes |-> <<>>]

\* what the claim of determinism compares: the CombatResult and the
\* durabilities the exchange leaves
Outcome(x) ==
    [result |-> x.result, attacker_durability |-> x.attacker.durability,
     target_durability |-> x.target.durability]

\* _execute_combat called on the recorded snapshots with the recorded draws;
\* its commit (line 370) stores the two rows
Replay ==
    LET x == Exchange(replay.attacker, replay.target, replay.action_type,
                      replay.damage_variance, replay.counter_variance)
    IN  /\ Len(replay.outcomes) < Runs
        /\ replay' = [replay EXCEPT !.outcomes = Append(@, Outcome(x))]
        /\ fleet' = [fleet EXCEPT ![replay.attacker.owner_id] = x.attacker,
                                  ![replay.target.owner_id] = x.target]
        /\ UNCHANGED <<combat_result, combat_log>>

CombatInit ==
    /\ fleet \in [Fighters -> [owner_id : Fighters, attack_power : AttackPowers,
                               defense : {DEFAULT_DEFENSE},
                               durability : {MaxDurability},
                               food : {0, InitialCargo}]]
    /\ \A v \in Fighters : fleet[v].owner_id = v
    /\ combat_result = NoResult
    /\ combat_log = NoLog
    /\ replay = NoReplay

\* two vehicles with durabilities 1..MaxDurability, and the arguments and
\* draws of the exchange that is run twice on them
ReplayInit ==
    /\ fleet \in [Fighters -> [owner_id : Fighters, attack_power : AttackPowers,
                               defense : {DEFAULT_DEFENSE},
                               durability : 1..MaxDurability,
                               food : {0, InitialCargo}]]
    /\ \A v \in Fighters : fleet[v].owner_id = v
    /\ combat_result = NoResult
    /\ combat_log = NoLog
    /\ \E action_type \in ActionTypes, damage_variance \in DamageVariances,
          counter_variance \in CounterVariances :
          replay = [attacker |-> fleet[1], target |-> fleet[2],
                    action_type |-> action_type,
                    damage_variance |-> damage_variance,
                    counter_variance |-> counter_variance, outcomes |-> <<>>]

\* the state in which the subsystems that are not under study rest
CombatIdle ==
    /\ fleet = [v \in Fighters |->
                 [owner_id |-> v, attack_power |-> DEFAULT_POWER,
                  defense |-> DEFAULT_DEFENSE, durability |-> MaxDurability,
                  food |-> InitialCargo]]
    /\ combat_result = NoResult
    /\ combat_log = NoLog
    /\ replay = NoReplay

(***************************************************************************)
(* Tick scheduler: GameEngine.start, stop and _game_loop, and the shutdown *)
(* path of main.py lifespan.  A coroutine is at an await inside a stage of *)
(* a tick, in the sleep between ticks, or in the sleep after a failure.    *)
(***************************************************************************)
STAGES == 6              \* the stages of _process_game_tick
LoopIds == {1, 2}
LifespanLoop == 1        \* the task lifespan creates and later cancels

NotStarted == [pc |-> "idle", stage |-> 0, raised |-> FALSE, retried |-> FALSE,
               aborted_stage |-> 0]

\* a loop that does not test the flag
IterateUnconditionally(loop, running, after_failure) ==
    [loop EXCEPT !.pc = "stage", !.stage = 1, !.raised = FALSE,
                 !.retried = after_failure \/ @]

\* lines 53-55: the loop condition holds and the tick is entered, up to the
\* first await of its first stage; otherwise the loop, and start, return
Iterate(loop, running, after_failure) ==
    IF running
    THEN [loop EXCEPT !.pc = "stage", !.stage = 1, !.raised = FALSE,
                      !.retried = after_failure \/ @]
    ELSE [loop EXCEPT !.pc = "exited", !.stage = 0, !.raised = FALSE]

\* a handler that gives up the loop
CaughtAndLeft(loop) == [loop EXCEPT !.pc = "exited", !.stage = 0, !.raised = TRUE]

\* lines 57-59: except Exception, log, await asyncio.sleep(1.0)
Caught(loop) == [loop EXCEPT !.pc = "backoff", !.stage = 0, !.raised = TRUE]

\* asyncio.CancelledError is no Exception: it passes the handler of line 57
\* and ends the coroutine where it was suspended
Cancelled(loop) ==
    [loop EXCEPT !.pc = "exited", !.stage = 0, !.raised = FALSE,
                 !.aborted_stage = IF loop.pc = "stage" THEN loop.stage ELSE 0]

\* start, lines 38-44: no check of whether a loop is already running
Start(l) ==
    /\ loops[l].pc \in {"idle", "exited"}
    /\ shutdown = "serving"
    /\ is_running' = TRUE
    /\ loops' = [loops EXCEPT ![l] = Iterate(NotStarted, TRUE, FALSE)]
    /\ UNCHANGED shutdown

\* stop, lines 46-49
Stop ==
    /\ shutdown = "serving"
    /\ is_running' = FALSE
    /\ UNCHANGED <<loops, shutdown>>

\* the awaits of a stage of _process_game_tick (lines 63-80) complete: the
\* next stage begins, or the tick ends and the loop sleeps (line 55), or the
\* stage raises
StageStep(l, ok) ==
    /\ loops[l].pc = "stage"
    /\ loops' = [loops EXCEPT ![l] =
                   IF ~ok THEN Caught(@)
                   ELSE IF @.stage < STAGES THEN [@ EXCEPT !.stage = @ + 1]
                   ELSE [@ EXCEPT !.pc = "sleep", !.stage = 0]]
    /\ UNCHANGED <<is_running, shutdown>>

\* asyncio.sleep(1.0 / tick_rate) of line 55 completes
SleepDone(l) ==
    /\ loops[l].pc = "sleep"
    /\ loops' = [loops EXCEPT ![l] = Iterate(@, is_running, FALSE)]
    /\ UNCHANGED <<is_running, shutdown>>

\* asyncio.sleep(1.0) of line 59 completes
BackoffDone(l) ==
    /\ loops[l].pc = "backoff"
    /\ loops' = [loops EXCEPT ![l] = Iterate(@, is_running, TRUE)]
    /\ UNCHANGED <<is_running, shutdown>>

\* main.py line 48: game_task.cancel()
ShutdownCancel ==
    /\ shutdown = "serving"
    /\ shutdown' = "cancelling"
    /\ UNCHANGED <<is_running, loops>>

\* the event loop throws CancelledError into the task at its await
CancelDelivered ==
    /\ shutdown = "cancelling"
    /\ loops[LifespanLoop].pc # "exited"
    /\ loops' = [loops EXCEPT ![LifespanLoop] = Cancelled(@)]
    /\ UNCHANGED <<is_running, shutdown>>

\* main.py lines 49-54: the awaited task has ended; game_engine.stop()
ShutdownStop ==
    /\ shutdown = "cancelling"
    /\ loops[LifespanLoop].pc = "exited"
    /\ shutdown' = "stopped"
    /\ is_running' = FALSE
    /\ UNCHANGED loops

LoopInit ==
    /\ is_running = FALSE
    /\ loops = [l \in LoopIds |-> NotStarted]
    /\ shutdown = "serving"

(***************************************************************************)
(* Trade: market.py buy_cargo and sell_cargo.  A request loads the vehicle *)
(* and the market row, checks, changes its copies and commits once; a      *)
(* request that raises before its commit stores nothing.                   *)
(***************************************************************************)
MaxRequests == 2         \* client requests a run makes
InitialCredits == 10     \* credits of a player at the start of a run
CargoCapacity == 3       \* cargo_capacity of the vehicles of a run
MaxCredits == 16         \* credits explored are at most MaxCredits
Quantities == {-2, 2, 4}      \* values of the quantity parameter explored
WalletQuantities == {-3, -1, 1, 2}
EmptyCargo == <<>>       \* current_cargo that is None or {}

Quantity(cargo, cargo_type) ==
    IF cargo_type \in DOMAIN cargo THEN cargo[cargo_type] ELSE 0

\* sum(current_cargo.values()), line 150
CargoTotal(cargo) == Quantity(cargo, "food") + Quantity(cargo, "fuel")

NoRequest == [op |-> "none", outcome |-> "none", reason |-> "none", player |-> 0,
              vehicle |-> 0, key |-> <<0, "none">>, quantity |-> 0, destination_id |-> 0]

Request(op, p, v, k, quantity, destination_id) ==
    [NoRequest EXCEPT !.op = op, !.player = p, !.vehicle = v, !.key = k,
                      !.quantity = quantity, !.destination_id = destination_id]

\* the request raised HTTPException with this detail
Rejected(request, reason) == [request EXCEPT !.outcome = "rejected", !.reason = reason]
\* the commit raised
Errored(request) == [request EXCEPT !.outcome = "error", !.reason = "commit failed"]
Done(request) == [request EXCEPT !.outcome = "ok", !.reason = "ok"]

\* buy_cargo without its capacity check
BuyRejectionNoCapacity(row, wallet, cargo, quantity) ==
    IF row.supply < quantity THEN "Insufficient supply"
    ELSE IF wallet < row.buy_price * quantity THEN "Insufficient credits"
    ELSE "ok"

\* buy_cargo lines 131-156: the checks in the order the handler makes them
BuyRejection(row, wallet, cargo, quantity) ==
    IF row.supply < quantity THEN "Insufficient supply"
    ELSE IF wallet < row.buy_price * quantity THEN "Insufficient credits"
    ELSE IF CargoTotal(cargo) + quantity > CargoCapacity
    THEN "Insufficient cargo capacity"
    ELSE "ok"

\* lines 109-156: the checks of buy_cargo in the order the handler makes them
BuyReason(v, k, quantity) ==
    IF vehicles[v].current_location_id # k[1]
    THEN "Vehicle must be at the trading location"
    ELSE IF k \notin DOMAIN market_prices
    THEN "No market data for this cargo type at this location"
    ELSE BuyRejection(market_prices[k], credits[Owner(v)], current_cargo[v], quantity)

\* lines 215-251: the checks of sell_cargo in the order the handler makes them
SellReason(v, k, quantity) ==
    IF vehicles[v].current_location_id # k[1]
    THEN "Vehicle must be at the trading location"
    ELSE IF k[2] \notin DOMAIN current_cargo[v] \/ current_cargo[v][k[2]] < quantity
    THEN "Insufficient cargo"
    ELSE IF k \notin DOMAIN market_prices
    THEN "No market data for this cargo type at this location"
    ELSE IF market_prices[k].demand < quantity THEN "Insufficient demand"
    ELSE "ok"

\* the current_cargo column a commit writes (models.py line 156, a plain JSON
\* column): the handler changes the loaded dict in place and assigns the same
\* object back (lines 149, 164-169, 223, 262-266), which the session compares
\* equal to what it loaded, so the UPDATE leaves the column out; only the
\* dict made by "or {}" when the loaded value is None or {} is written
StoredCargoDict(loaded, assigned) == IF loaded = EmptyCargo THEN assigned ELSE loaded

\* lines 159-169
BoughtRow(row, quantity) ==
    [row EXCEPT !.supply = @ - quantity, !.demand = @ + (quantity \div 2)]
BoughtCargo(cargo, cargo_type, quantity) ==
    SetKey(cargo, cargo_type, Quantity(cargo, cargo_type) + quantity)

\* lines 257-266
SoldRow(row, quantity) ==
    [row EXCEPT !.supply = @ + quantity, !.demand = @ - quantity]
SoldCargo(cargo, cargo_type, quantity) ==
    IF cargo[cargo_type] - quantity = 0 THEN DropKeys(cargo, {cargo_type})
    ELSE [cargo EXCEPT ![cargo_type] = @ - quantity]

\* the values explored stay in a finite range
WithinTradeBounds(row, wallet) ==
    /\ row.supply \in -MaxStock..MaxStock
    /\ row.demand \in -MaxStock..MaxStock
    /\ wallet <= MaxCredits

\* one client request; the counter only bounds the run
Served(request) ==
    /\ request_seq < MaxRequests
    /\ request_seq' = request_seq + 1
    /\ request_result' = request

\* buy_cargo, lines 72-178
BuyCargo(v, k, quantity, commit_ok) ==
    LET p == Owner(v)
        request == Request("buy_cargo", p, v, k, quantity, NoLocation)
        row == market_prices[k]
        cargo == current_cargo[v]
        reason == BuyReason(v, k, quantity)
        wallet == credits[p] - row.buy_price * quantity
    IN  IF reason # "ok"
        THEN /\ Served(Rejected(request, reason))
             /\ UNCHANGED <<market_prices, credits, current_cargo>>
        ELSE IF ~commit_ok
        THEN /\ Served(Errored(request))
             /\ UNCHANGED <<market_prices, credits, current_cargo>>
        ELSE /\ WithinTradeBounds(BoughtRow(row, quantity), wallet)
             /\ Served(Done(request))
             /\ credits' = [credits EXCEPT ![p] = wallet]
             /\ market_prices' = [market_prices EXCEPT ![k] = BoughtRow(row, quantity)]
             /\ current_cargo' = [current_cargo EXCEPT ![v] =
                    StoredCargoDict(cargo, BoughtCargo(cargo, k[2], quantity))]

\* sell_cargo, lines 181-275
SellCargo(v, k, quantity, commit_ok) ==
    LET p == Owner(v)
        request == Request("sell_cargo", p, v, k, quantity, NoLocation)
        row == market_prices[k]
        cargo == current_cargo[v]
        reason == SellReason(v, k, quantity)
        wallet == credits[p] + row.sell_price * quantity
    IN  IF reason # "ok"
        THEN /\ Served(Rejected(request, reason))
             /\ UNCHANGED <<market_prices, credits, current_cargo>>
        ELSE IF ~commit_ok
        THEN /\ Served(Errored(request))
             /\ UNCHANGED <<market_prices, credits, current_cargo>>
        ELSE /\ WithinTradeBounds(SoldRow(row, quantity), wallet)
             /\ Served(Done(request))
             /\ credits' = [credits EXCEPT ![p] = wallet]
             /\ market_prices' = [market_prices EXCEPT ![k] = SoldRow(row, quantity)]
             /\ current_cargo' = [current_cargo EXCEPT ![v] =
                    StoredCargoDict(cargo, SoldCargo(cargo, k[2], quantity))]

\* start_travel, lines 166-221: the checks that end the request before it
\* changes the vehicle
TravelRejection(row, destination_id) ==
    IF row.is_traveling THEN "Vehicle is already traveling"
    ELSE IF destination_id \notin Locations THEN "Destination not found"
    ELSE IF row.current_location_id = NoLocation THEN "Vehicle has no current location"
    ELSE IF row.current_fuel < FuelCost(Distance(row.current_location_id, destination_id))
    THEN "Insufficient fuel for journey"
    ELSE "ok"

StartTravelRejected(v, destination_id) ==
    LET reason == TravelRejection(vehicles[v], destination_id)
    IN  /\ reason # "ok"
        /\ Served(Rejected(Request("start_travel", Owner(v), v, <<0, "none">>, 0,
                                   destination_id), reason))

TradeInit ==
    /\ credits = [p \in Players |-> InitialCredits]
    /\ current_cargo = [v \in Vehicles |-> EmptyCargo]
    /\ request_result = NoRequest
    /\ request_seq = 0

(***************************************************************************)
(* Mission deadlines: GameEngine._check_mission_deadlines and the Celery   *)
(* task process_expired_missions.                                          *)
(***************************************************************************)
MissionIds == {1, 2}
InitialReputation == 5   \* reputation of a player at the start of a run
LowCredits == 2          \* credits of a player who cannot pay a penalty in full
Deadline == 50           \* the deadline of the missions that have one
RewardCredits == 10      \* reward_credits of the missions of a run
PenaltyCredits == 3      \* penalty_credits of the missions that set one
REPUTATION_PENALTY == 2
NoPlayer == 0
OpenStatuses == {"accepted", "in_progress"}
SweepIds == {"tick", "task"}
IdleSweep == [stage |-> "idle", rows |-> <<>>, owners |-> <<>>]

\* a penalty that is always a quarter of the reward
PenaltyQuarter(mission) == mission.reward_credits \div 4

\* line 457: mission.penalty_credits or (mission.reward_credits // 4)
Penalty(mission) ==
    IF mission.penalty_credits # 0 THEN mission.penalty_credits
    ELSE mission.reward_credits \div 4

\* the rows the query of lines 442-450 selects
ExpiredMissions ==
    {m \in MissionIds : /\ missions[m].status \in OpenStatuses
                        /\ missions[m].deadline # NoTime
                        /\ missions[m].deadline <= now}

\* lines 452-459, for the missions of ms in the order of their ids, on the
\* objects of one session
RECURSIVE Swept(_, _)
Swept(ms, store) ==
    IF ms = {} THEN store
    ELSE LET m == CHOOSE x \in ms : \A y \in ms : x <= y
             p == store.missions[m].player_id
             failed == [store.missions EXCEPT ![m].status = "failed"]
         IN  Swept(ms \ {m},
                   IF p # NoPlayer
                   THEN [missions |-> failed,
                         credits |-> [store.credits EXCEPT
                                        ![p] = Max(0, @ - Penalty(store.missions[m]))],
                         reputation |-> [store.reputation EXCEPT
                                        ![p] = Max(0, @ - REPUTATION_PENALTY)]]
                   ELSE [store EXCEPT !.missions = failed])

\* one sweep: select, change the loaded objects, commit
Sweep(commit_ok) ==
    LET swept == Swept(ExpiredMissions,
                       [missions |-> missions, credits |-> credits,
                        reputation |-> reputation])
    IN  /\ IF commit_ok
           THEN /\ missions' = swept.missions
                /\ credits' = swept.credits
                /\ reputation' = swept.reputation
                /\ last_sweep' = "committed"
           ELSE /\ UNCHANGED <<missions, credits, reputation>>
                /\ last_sweep' = "rolled back"
        /\ UNCHANGED sweeps

\* _check_mission_deadlines, game_engine.py lines 438-475: the commit of line
\* 475 runs when the query selected a mission
CheckMissionDeadlines(commit_ok) ==
    /\ ExpiredMissions # {} \/ commit_ok
    /\ Sweep(commit_ok)

\* _process_expired_missions_async, game_tasks.py lines 119-161
ProcessExpiredMissionsTask(commit_ok) == Sweep(commit_ok)

\* the sweep as its statements reach the store.  The query of lines 442-450
\* (game_tasks.py 125-133) is two SELECTs, the missions and then, for
\* selectinload(Mission.player), their players; each sees what is committed
\* when it runs.
SelectExpiredMissions(s) ==
    /\ sweeps[s].stage = "idle"
    /\ sweeps' = [sweeps EXCEPT ![s] =
                    [stage |-> "selected",
                     rows |-> [m \in ExpiredMissions |-> missions[m]],
                     owners |-> <<>>]]
    /\ UNCHANGED <<missions, credits, reputation, last_sweep>>

LoadMissionPlayers(s) ==
    LET ids == {sweeps[s].rows[m].player_id : m \in DOMAIN sweeps[s].rows} \ {NoPlayer}
    IN  /\ sweeps[s].stage = "selected"
        /\ sweeps' = [sweeps EXCEPT ![s].stage = "loaded",
                                    ![s].owners = [p \in ids |->
                                        [credits |-> credits[p], reputation |-> reputation[p]]]]
        /\ UNCHANGED <<missions, credits, reputation, last_sweep>>

\* the objects of session s changed by the loop of lines 452-459
SweptInSession(s) ==
    LET rows == sweeps[s].rows
        owners == sweeps[s].owners
    IN  Swept(DOMAIN rows,
              [missions |-> [m \in MissionIds |-> IF m \in DOMAIN rows THEN rows[m] ELSE missions[m]],
               credits |-> [p \in Players |-> IF p \in DOMAIN owners THEN owners[p].credits ELSE credits[p]],
               reputation |-> [p \in Players |-> IF p \in DOMAIN owners THEN owners[p].reputation ELSE reputation[p]]])

\* lines 452-475 (game_tasks.py 136-155): the loop over the loaded missions
\* and the commit, which writes the columns whose value the loop changed
CommitSweep(s, commit_ok) ==
    LET rows == sweeps[s].rows
        owners == sweeps[s].owners
        swept == SweptInSession(s)
    IN  /\ sweeps[s].stage = "loaded"
        /\ sweeps' = [sweeps EXCEPT ![s] = IdleSweep]
        /\ IF commit_ok
           THEN /\ missions' = [m \in MissionIds |->
                                  IF m \in DOMAIN rows THEN [missions[m] EXCEPT !.status = "failed"]
                                  ELSE missions[m]]
                /\ credits' = [p \in Players |->
                                  IF p \in DOMAIN owners /\ swept.credits[p] # owners[p].credits
                                  THEN swept.credits[p] ELSE credits[p]]
                /\ reputation' = [p \in Players |->
                                  IF p \in DOMAIN owners /\ swept.reputation[p] # owners[p].reputation
                                  THEN swept.reputation[p] ELSE reputation[p]]
                /\ last_sweep' = "committed"
           ELSE /\ UNCHANGED <<missions, credits, reputation>>
                /\ last_sweep' = "rolled back"

MissionIdle ==
    /\ missions = [m \in MissionIds |->
                     [status |-> "available", player_id |-> NoPlayer,
                      deadline |-> NoTime, reward_credits |-> RewardCredits,
                      penalty_credits |-> 0]]
    /\ reputation = [p \in Players |-> InitialReputation]
    /\ last_sweep = "none"
    /\ sweeps = [s \in SweepIds |-> IdleSweep]

\* missions of every status; an accepted, running or finished mission has
\* the player who accepted it
MissionInit ==
    /\ missions \in [MissionIds ->
          [status : {"available", "completed"} \cup OpenStatuses,
           player_id : Players \cup {NoPlayer},
           deadline : {NoTime, Deadline},
           reward_credits : {RewardCredits},
           penalty_credits : {0, PenaltyCredits}]]
    /\ \A m \in MissionIds :
          missions[m].player_id = NoPlayer <=> missions[m].status = "available"
    /\ reputation \in [Players -> {1, InitialReputation}]
    /\ last_sweep = "none"
    /\ sweeps = [s \in SweepIds |-> IdleSweep]

(***************************************************************************)
(* The messages the engine and the registry build for a client channel.    *)
(* send_personal_message and the broadcasts hand json.dumps(message) to    *)
(* send_text; the encoding keeps every key of the dict.                    *)
(***************************************************************************)
MaxWire == 2             \* messages a run sends
DangerLevels == {1, 3}   \* danger_level of the locations explored
HelperTypes == {"game_state_update", "market_update", "combat_update", "mission_update", "alliance_update", "world_event", "notification"}
Payloads == {<<>>, [status |-> "failed"]}

\* websocket_manager.py lines 37-44
ConnectionEstablished(p) ==
    [type |-> "connection_established",
     data |-> [player_id |-> p, timestamp |-> now,
               message |-> "Connected to Cargo Clash real-time updates"]]

\* game_engine.py lines 122-129
TravelComplete(v, l, location_name) ==
    [type |-> "travel_complete",
     data |-> [vehicle_id |-> v, location_id |-> l, location_name |-> location_name]]

\* game_engine.py lines 150-158
PirateEncounter(v, l, danger_level) ==
    [type |-> "pirate_encounter",
     data |-> [vehicle_id |-> v, location_id |-> l, danger_level |-> danger_level,
               message |-> "Pirates spotted! Prepare for combat!"]]

\* game_engine.py lines 512-515
Pong == [type |-> "pong", data |-> [timestamp |-> now]]

\* the message of the send_* helpers, websocket_manager.py lines 174-256
Envelope(type, data) == [type |-> type, data |-> data, timestamp |-> now]

\* websocket.send_text(json.dumps(message)), line 77
Deliver(message) ==
    /\ Len(wire) < MaxWire
    /\ wire' = Append(wire, message)

MessageInit == wire = <<>>

Rolls == {0, 10, 50}     \* random.random(), in hundredths
ENCOUNTER_PERCENT == 5   \* 5% per danger level

\* Location.danger_level of the two locations; a location's name is written
\* as its id
DangerLevel(l) == IF l = 1 THEN 3 ELSE 0

\* game_engine.py lines 118-133 and 138-159 for one arriving vehicle, row
\* being the row as the SELECT loaded it.  vehicle.current_location is the
\* Location object that selectinload (line 91) attached to the vehicle, the
\* location of departure: line 104 assigns the column current_location_id
\* and leaves the loaded relationship as it is.
ArrivalNotices(v, row, roll) ==
    LET current_location == row.current_location_id
        complete == TravelComplete(v, row.destination_id, current_location)
        danger_level == DangerLevel(current_location)
    IN  IF roll < danger_level * ENCOUNTER_PERCENT
        THEN <<complete, PirateEncounter(v, row.destination_id, danger_level)>>
        ELSE <<complete>>

\* the messages of one run of the travel stage
RECURSIVE StageNotices(_, _)
StageNotices(vs, roll) ==
    IF vs = {} THEN <<>>
    ELSE LET v == CHOOSE x \in vs : TRUE
         IN  ArrivalNotices(v, vehicles[v], roll) \o StageNotices(vs \ {v}, roll)

(***************************************************************************)
(* Initial state of the store and of a freshly constructed engine          *)
(* (GameEngine.__init__, lines 26-36).                                     *)
(***************************************************************************)
InitialPrices == {1, 3}
InitialStock == {0, 10}

WorldInit ==
    /\ now = 0
    /\ last_market_update = 0
    /\ last_event_check = 0
    /\ market_prices \in [MarketKeys -> [buy_price : InitialPrices, sell_price : {1},
                                          supply : InitialStock, demand : {10}]]
    /\ game_events = <<>>
    /\ event_id_seq = 0
    /\ active_events = <<>>
    /\ price_history = [k \in MarketKeys |-> EmptyHistory]
    /\ last_cycle = NoCycle

Init ==
    /\ WorldInit /\ RegistryInit /\ TravelInit /\ CombatIdle /\ LoopInit /\ TradeInit
    /\ MissionIdle /\ MessageInit

\* the variables each subsystem leaves alone
notWorld == <<registryVars, travelVars, combatVars, loopVars, tradeVars, missionVars, wire>>
notRegistry == <<worldVars, travelVars, combatVars, loopVars, tradeVars, missionVars, wire>>
notLoop == <<worldVars, registryVars, travelVars, combatVars, tradeVars, missionVars, wire>>
tradeRest == <<current_cargo, request_result, request_seq>>
registryChannels == <<active_connections, alliance_groups, accepted, broken, connecting,
                      handlers, calls, registry_op>>

\* the market and everything that changes a price
MarketNext ==
    \/ AdvanceTime({MARKET_UPDATE_MINUTES}, MaxTime) /\ UNCHANGED notWorld
    \/ ProcessMarketUpdates /\ UNCHANGED notWorld
    \/ CheckRandomEventsNoEvent /\ UNCHANGED notWorld
    \/ CheckRandomEventsTrigger /\ UNCHANGED notWorld
    \/ UpdateMarketPricesTask /\ UNCHANGED notWorld

SpecMarket == Init /\ [][MarketNext]_vars

\* the price history over two days: the engine's stage and the task
HistoryNext ==
    \/ AdvanceTime({HalfDay}, MaxHistoryTime) /\ UNCHANGED notWorld
    \/ ProcessMarketUpdates /\ UNCHANGED notWorld
    \/ UpdateMarketPricesTask /\ UNCHANGED notWorld

SpecHistory == Init /\ [][HistoryNext]_vars

\* world events: creation by the engine and by the task, expiry by the engine
EventNext ==
    \/ AdvanceTime({LongWait}, MaxEventTime) /\ UNCHANGED notWorld
    \/ CheckRandomEventsNoEvent /\ UNCHANGED notWorld
    \/ CheckRandomEventsTrigger /\ UNCHANGED notWorld
    \/ ProcessActiveEvents /\ UNCHANGED notWorld
    \/ GenerateRandomEventsTask /\ UNCHANGED notWorld

\* the same start with one seeded market row
EventInit ==
    /\ Init
    /\ \A k \in DOMAIN market_prices :
          market_prices[k].buy_price = 3 /\ market_prices[k].supply = 10

SpecEvents == EventInit /\ [][EventNext]_vars

\* the two paced stages of the engine on a clock that advances by minutes
PaceNext ==
    \/ AdvanceTime({1, 4}, MaxPaceTime) /\ UNCHANGED notWorld
    \/ ProcessMarketUpdates /\ UNCHANGED notWorld
    \/ CheckRandomEventsNoEvent /\ UNCHANGED notWorld
    \/ CheckRandomEventsTrigger /\ UNCHANGED notWorld

SpecPace == EventInit /\ [][PaceNext]_vars

\* the connection registry under concurrent coroutines
RegistryNext ==
    \/ \E p \in Players : Connect(p) /\ UNCHANGED notRegistry
    \/ \E ws \in 1..MaxSockets : ConnectSendFinish(ws) /\ UNCHANGED notRegistry
    \/ \E c \in CallIds, p \in Players :
          SendPersonalMessage(c, p) /\ UNCHANGED notRegistry
    \/ \E c \in CallIds, l \in Locations, x \in Players \cup {0} :
          BroadcastToLocation(c, l, x) /\ UNCHANGED notRegistry
    \/ \E c \in CallIds, a \in Alliances, x \in Players \cup {0} :
          BroadcastToAlliance(c, a, x) /\ UNCHANGED notRegistry
    \/ \E c \in CallIds : BroadcastGlobal(c) /\ UNCHANGED notRegistry
    \/ \E c \in CallIds : PersonalSendFinish(c) /\ UNCHANGED notRegistry
    \/ \E c \in CallIds : GlobalSendFinish(c) /\ UNCHANGED notRegistry
    \/ \E ws \in 1..MaxSockets : HandlerDisconnect(ws) /\ UNCHANGED notRegistry
    \/ \E ws \in 1..MaxSockets : ChannelBreaks(ws) /\ UNCHANGED notRegistry
    \/ \E p \in Players, l \in Locations :
          UpdatePlayerLocation(p, l) /\ UNCHANGED notRegistry
    \/ \E p \in Players, a \in Alliances :
          UpdatePlayerAlliance(p, a, 0) /\ UNCHANGED notRegistry
    \/ \E p \in Players, old \in Alliances :
          UpdatePlayerAlliance(p, 0, old) /\ UNCHANGED notRegistry

SpecRegistry == EventInit /\ [][RegistryNext]_vars

\* travel: requests, the tick's travel stage and the task, on one store
TravelNext ==
    \/ AdvanceTime({LongWait}, MaxEventTime) /\ UNCHANGED notWorld
    \/ \E s \in SessionIds, v \in Vehicles, l \in Locations \cup {UnknownLocation} :
          /\ StartTravelLoad(s, v, l)
          /\ UNCHANGED <<worldVars, registryVars, combatVars, loopVars, tradeVars, missionVars, wire>>
    \/ \E s \in SessionIds, v \in Vehicles :
          /\ RefuelLoad(s, v)
          /\ UNCHANGED <<worldVars, registryVars, combatVars, loopVars, tradeRest, missionVars, wire>>
    \/ \E s \in SessionIds, commit_ok \in BOOLEAN :
          /\ Commit(s, commit_ok)
          /\ UNCHANGED <<worldVars, registryVars, combatVars, loopVars, tradeRest, missionVars, wire>>
    \/ /\ UpdateVehicleTravelsLoad
       /\ UNCHANGED <<worldVars, registryChannels, combatVars, loopVars, tradeVars, missionVars, wire>>
    \/ \E v \in Vehicles :
          /\ ProcessVehicleTravelLoad(v)
          /\ UNCHANGED <<worldVars, registryVars, combatVars, loopVars, tradeVars, missionVars, wire>>

SpecTravel == EventInit /\ [][TravelNext]_vars

\* the travel stage with the messages it sends to the owners
ArrivalNext ==
    \/ AdvanceTime({LongWait}, MaxEventTime) /\ UNCHANGED notWorld
    \/ \E s \in SessionIds, v \in Vehicles, l \in Locations :
          /\ StartTravelLoad(s, v, l)
          /\ UNCHANGED <<worldVars, registryVars, combatVars, loopVars, tradeVars, missionVars, wire>>
    \/ \E s \in SessionIds, commit_ok \in BOOLEAN :
          /\ Commit(s, commit_ok)
          /\ UNCHANGED <<worldVars, registryVars, combatVars, loopVars, tradeRest, missionVars, wire>>
    \/ \E roll \in Rolls :
          /\ UpdateVehicleTravelsLoad
          /\ wire' = StageNotices(Due, roll)
          /\ UNCHANGED <<worldVars, registryChannels, combatVars, loopVars, tradeVars, missionVars>>

SpecArrival == EventInit /\ [][ArrivalNext]_vars

\* the travel stage with two vehicles of one player on the road
ConvoyNext ==
    \/ AdvanceTime({LongWait}, MaxEventTime) /\ UNCHANGED notWorld
    \/ \E s \in SessionIds, v \in Convoy, l \in Locations :
          /\ StartTravelLoad(s, v, l)
          /\ UNCHANGED <<worldVars, registryVars, combatVars, loopVars, tradeVars, missionVars, wire>>
    \/ \E s \in SessionIds, commit_ok \in BOOLEAN :
          /\ Commit(s, commit_ok)
          /\ UNCHANGED <<worldVars, registryVars, combatVars, loopVars, tradeRest, missionVars, wire>>
    \/ /\ UpdateVehicleTravelsLoad
       /\ UNCHANGED <<worldVars, registryChannels, combatVars, loopVars, tradeVars, missionVars, wire>>

ConvoySpecInit ==
    /\ WorldInit /\ RegistryInit /\ ConvoyInit /\ CombatIdle /\ LoopInit /\ TradeInit
    /\ MissionIdle /\ MessageInit
    /\ \A k \in DOMAIN market_prices :
          market_prices[k].buy_price = 3 /\ market_prices[k].supply = 10

SpecConvoy == ConvoySpecInit /\ [][ConvoyNext]_vars

\* the clock goes on, the loop runs the travel stage in every tick, and the
\* store does not refuse the commit of the stage for ever
ConvoyFairness ==
    /\ WF_vars(AdvanceTime({LongWait}, MaxEventTime) /\ UNCHANGED notWorld)
    /\ WF_vars(UpdateVehicleTravelsLoad
                 /\ UNCHANGED <<worldVars, registryChannels, combatVars, loopVars, tradeVars, missionVars, wire>>)
    /\ SF_vars(Commit("tick", TRUE)
                 /\ UNCHANGED <<worldVars, registryVars, combatVars, loopVars, tradeRest, missionVars, wire>>)

SpecConvoyFair == SpecConvoy /\ ConvoyFairness

\* combat: exchanges between two vehicles, in either direction
CombatNext ==
    \E a \in Fighters, t \in Fighters, action_type \in ActionTypes,
       damage_variance \in DamageVariances, counter_variance \in CounterVariances,
       commit_ok \in BOOLEAN, log_ok \in BOOLEAN :
        /\ AttackPlayer(a, t, action_type, damage_variance, counter_variance,
                        commit_ok, log_ok)
        /\ UNCHANGED <<worldVars, registryVars, travelVars, loopVars, tradeVars, missionVars, wire>>

CombatSpecInit ==
    /\ WorldInit /\ RegistryInit /\ TravelInit /\ CombatInit /\ LoopInit /\ TradeInit
    /\ MissionIdle /\ MessageInit
    /\ \A k \in DOMAIN market_prices :
          market_prices[k].buy_price = 3 /\ market_prices[k].supply = 10

SpecCombat == CombatSpecInit /\ [][CombatNext]_vars

\* mission deadlines: the clock, the engine's sweep and the task's
MissionNext ==
    \/ AdvanceTime({LongWait}, MaxEventTime)
          /\ UNCHANGED <<registryVars, travelVars, combatVars, loopVars, tradeVars, missionVars, wire>>
    \/ \E commit_ok \in BOOLEAN :
          /\ CheckMissionDeadlines(commit_ok)
          /\ UNCHANGED <<worldVars, registryVars, travelVars, combatVars, loopVars, tradeRest, wire>>
    \/ \E commit_ok \in BOOLEAN :
          /\ ProcessExpiredMissionsTask(commit_ok)
          /\ UNCHANGED <<worldVars, registryVars, travelVars, combatVars, loopVars, tradeRest, wire>>

MissionSpecInit ==
    /\ WorldInit /\ RegistryInit /\ TravelInit /\ CombatIdle /\ LoopInit /\ MissionInit
    /\ MessageInit
    /\ \A k \in DOMAIN market_prices :
          market_prices[k].buy_price = 3 /\ market_prices[k].supply = 10
    /\ credits \in [Players -> {LowCredits, InitialCredits}]
    /\ current_cargo = [v \in Vehicles |-> EmptyCargo]
    /\ request_result = NoRequest
    /\ request_seq = 0

SpecMissions == MissionSpecInit /\ [][MissionNext]_vars

\* the tick's sweep and the task's sweep as two sessions on one store
SweepNext ==
    \/ AdvanceTime({LongWait}, MaxEventTime)
          /\ UNCHANGED <<registryVars, travelVars, combatVars, loopVars, tradeVars, missionVars, wire>>
    \/ \E s \in SweepIds :
          /\ SelectExpiredMissions(s)
          /\ UNCHANGED <<worldVars, registryVars, travelVars, combatVars, loopVars, tradeRest, wire>>
    \/ \E s \in SweepIds :
          /\ LoadMissionPlayers(s)
          /\ UNCHANGED <<worldVars, registryVars, travelVars, combatVars, loopVars, tradeRest, wire>>
    \/ \E s \in SweepIds, commit_ok \in BOOLEAN :
          /\ CommitSweep(s, commit_ok)
          /\ UNCHANGED <<worldVars, registryVars, travelVars, combatVars, loopVars, tradeRest, wire>>

\* every mission is accepted or running, has a player and a deadline
SweepSpecInit ==
    /\ MissionSpecInit
    /\ \A m \in MissionIds :
          missions[m].status \in OpenStatuses /\ missions[m].deadline = Deadline
    /\ credits = [p \in Players |-> InitialCredits]
    /\ reputation = [p \in Players |-> InitialReputation]

SpecSweeps == SweepSpecInit /\ [][SweepNext]_vars

notWire == <<registryVars, travelVars, combatVars, loopVars, tradeVars, missionVars>>

\* the messages of the engine, of connect and of the send_* helpers
MessageNext ==
    \/ AdvanceTime({LongWait}, MaxEventTime) /\ UNCHANGED <<notWire, wire>>
    \/ \E p \in Players :
          Deliver(ConnectionEstablished(p)) /\ UNCHANGED <<worldVars, notWire>>
    \/ \E v \in Vehicles, l \in Locations, location_name \in Locations :
          Deliver(TravelComplete(v, l, location_name)) /\ UNCHANGED <<worldVars, notWire>>
    \/ \E v \in Vehicles, l \in Locations, danger_level \in DangerLevels :
          Deliver(PirateEncounter(v, l, danger_level)) /\ UNCHANGED <<worldVars, notWire>>
    \/ Deliver(Pong) /\ UNCHANGED <<worldVars, notWire>>
    \/ \E type \in HelperTypes, data \in Payloads :
          Deliver(Envelope(type, data)) /\ UNCHANGED <<worldVars, notWire>>

SpecMessages == EventInit /\ [][MessageNext]_vars

\* one exchange run twice from the same snapshots with the same draws
ReplayNext ==
    Replay /\ UNCHANGED <<worldVars, registryVars, travelVars, loopVars, tradeVars, missionVars, wire>>

ReplaySpecInit ==
    /\ WorldInit /\ RegistryInit /\ TravelInit /\ ReplayInit /\ LoopInit /\ TradeInit
    /\ MissionIdle /\ MessageInit
    /\ \A k \in DOMAIN market_prices :
          market_prices[k].buy_price = 3 /\ market_prices[k].supply = 10

SpecReplay == ReplaySpecInit /\ [][ReplayNext]_vars

\* the scheduler: callers of start and stop, the loops, the server's shutdown
LoopNext ==
    \/ \E l \in LoopIds : Start(l) /\ UNCHANGED notLoop
    \/ Stop /\ UNCHANGED notLoop
    \/ \E l \in LoopIds, ok \in BOOLEAN : StageStep(l, ok) /\ UNCHANGED notLoop
    \/ \E l \in LoopIds : SleepDone(l) /\ UNCHANGED notLoop
    \/ \E l \in LoopIds : BackoffDone(l) /\ UNCHANGED notLoop
    \/ ShutdownCancel /\ UNCHANGED notLoop
    \/ CancelDelivered /\ UNCHANGED notLoop
    \/ ShutdownStop /\ UNCHANGED notLoop

SpecLoop == EventInit /\ [][LoopNext]_vars

\* trade and travel requests of clients, with the economic update
notTrade == <<registryVars, combatVars, loopVars, missionVars, wire>>
worldRest == <<now, last_market_update, last_event_check, game_events, event_id_seq,
               active_events, price_history, last_cycle>>
TradeKeys == Locations \X {"food"}

TradeNext ==
    \/ AdvanceTime({MARKET_UPDATE_MINUTES}, MaxTime) /\ UNCHANGED notWorld
    \/ ProcessMarketUpdates /\ UNCHANGED notWorld
    \/ \E v \in Vehicles, k \in TradeKeys, quantity \in Quantities, commit_ok \in BOOLEAN :
          /\ BuyCargo(v, k, quantity, commit_ok)
          /\ UNCHANGED <<worldRest, travelVars, notTrade>>
    \/ \E v \in Vehicles, k \in TradeKeys, quantity \in Quantities, commit_ok \in BOOLEAN :
          /\ SellCargo(v, k, quantity, commit_ok)
          /\ UNCHANGED <<worldRest, travelVars, notTrade>>
    \/ \E v \in Vehicles, l \in Locations \cup {UnknownLocation} :
          /\ StartTravelLoad("request_1", v, l)
          /\ UNCHANGED <<worldVars, notTrade, tradeVars>>
    \/ \E commit_ok \in BOOLEAN :
          /\ Commit("request_1", commit_ok)
          /\ UNCHANGED <<worldVars, notTrade, tradeRest>>
    \/ \E v \in Vehicles, l \in Locations \cup {UnknownLocation} :
          /\ StartTravelRejected(v, l)
          /\ UNCHANGED <<worldVars, travelVars, notTrade, credits, current_cargo>>

\* the same start, with a vehicle that may be low on fuel
TradeSpecInit ==
    /\ WorldInit /\ RegistryInit /\ CombatIdle /\ LoopInit /\ TradeInit /\ MissionIdle
    /\ MessageInit
    /\ \A k \in DOMAIN market_prices : market_prices[k].supply = 10
    /\ \E fuel \in {InitialFuel, LowFuel} :
          vehicles = [v \in Vehicles |->
              [is_traveling |-> FALSE, destination_id |-> NoLocation,
               travel_start_time |-> NoTime, estimated_arrival |-> NoTime,
               current_location_id |-> 1, current_fuel |-> fuel,
               speed |-> VEHICLE_SPEED]]
    /\ players = [p \in Players |-> OwnerRow(1)]
    /\ sessions = [s \in SessionIds |-> ClosedSession]

SpecTrade == TradeSpecInit /\ [][TradeNext]_vars

\* purchases and sales with a quantity further below zero
WalletNext ==
    \/ \E v \in Vehicles, k \in TradeKeys, quantity \in WalletQuantities, commit_ok \in BOOLEAN :
          /\ BuyCargo(v, k, quantity, commit_ok)
          /\ UNCHANGED <<worldRest, travelVars, notTrade>>
    \/ \E v \in Vehicles, k \in TradeKeys, quantity \in WalletQuantities, commit_ok \in BOOLEAN :
          /\ SellCargo(v, k, quantity, commit_ok)
          /\ UNCHANGED <<worldRest, travelVars, notTrade>>

\* the start of the trade runs, with players that may be short of credits
WalletSpecInit ==
    /\ RegistryInit /\ CombatIdle /\ LoopInit /\ MissionIdle /\ MessageInit
    /\ now = 0 /\ last_market_update = 0 /\ last_event_check = 0
    /\ market_prices \in [MarketKeys -> [buy_price : InitialPrices, sell_price : {1},
                                          supply : {10}, demand : {0, 5}]]
    /\ game_events = <<>> /\ event_id_seq = 0 /\ active_events = <<>>
    /\ price_history = [k \in MarketKeys |-> EmptyHistory]
    /\ last_cycle = NoCycle
    /\ vehicles = [v \in Vehicles |->
          [is_traveling |-> FALSE, destination_id |-> NoLocation,
           travel_start_time |-> NoTime, estimated_arrival |-> NoTime,
           current_location_id |-> 1, current_fuel |-> InitialFuel,
           speed |-> VEHICLE_SPEED]]
    /\ players = [p \in Players |-> OwnerRow(1)]
    /\ sessions = [s \in SessionIds |-> ClosedSession]
    /\ credits \in [Players -> {LowCredits, InitialCredits}]
    /\ current_cargo = [v \in Vehicles |-> EmptyCargo]
    /\ request_result = NoRequest
    /\ request_seq = 0

SpecWallet == WalletSpecInit /\ [][WalletNext]_vars

\* the event loop resumes every coroutine whose await has completed
LoopFairness ==
    \A l \in LoopIds :
        /\ WF_vars(\E ok \in BOOLEAN : StageStep(l, ok) /\ UNCHANGED notLoop)
        /\ WF_vars(SleepDone(l) /\ UNCHANGED notLoop)
        /\ WF_vars(BackoffDone(l) /\ UNCHANGED notLoop)

SpecLoopFair == SpecLoop /\ LoopFairness

(***************************************************************************)
(* Claims.                                                                 *)
(***************************************************************************)

\* C1: in every reachable state every market entry has buy_price >= 1 and
\* sell_price >= 1, whatever price-changing operation ran (the periodic
\* update, the multiplication applied when a market-shift event is created,
\* the update_market_prices task).
C1_PriceFloor ==
    \A k \in DOMAIN market_prices :
        market_prices[k].buy_price >= 1 /\ market_prices[k].sell_price >= 1

\* C6: the keys of the engine's active-event index are the ids of the
\* persisted events whose is_active flag is true.
C6_IndexMatchesStore ==
    DOMAIN active_events = {e \in DOMAIN game_events : game_events[e].is_active}

\* C4: after disconnect(p) completes, whether websocket_endpoint called it or
\* the clean-up of a failed send did, p has no active connection, no
\* player_locations entry, and is a member of no location group and of no
\* alliance group.
C4_DisconnectRemovesEverywhere ==
    registry_op.op \in {"disconnect", "send_finish"} =>
        \A p \in registry_op.players : Holdings(Registry, p) = {}

\* C4 witness: disconnect has just run for a player that had a connection, a
\* location entry, a location group and an alliance group.
C4_Witness ==
    /\ registry_op.op = "disconnect"
    /\ registry_op.had = {"connection", "location", "location_group", "alliance_group"}
    /\ \A p \in registry_op.players : Holdings(Registry, p) = {}

\* C5: the registry holds at most one channel per player: a step in which
\* connect(ws2, p) registers leaves exactly ws2 registered for p, also when p
\* was registered with ws1, and every send to p that starts afterwards starts
\* on the channel most recently connected for p, never on one it superseded.
C5_ConnectSupersedes ==
    [][/\ accepted' # accepted =>
            LET ws2 == Len(accepted')
            IN  /\ accepted'[ws2] \in DOMAIN active_connections'
                /\ active_connections'[accepted'[ws2]] = ws2
                /\ ws2 \in connecting'
       /\ \A c \in CallIds :
            (calls'[c].sending # NoSend /\ calls'[c].sending # calls[c].sending) =>
                calls'[c].sending[2] = LatestChannel(accepted', calls'[c].sending[1])]_vars

\* C5 witness: player 1 connected twice, the first channel is still open and
\* its handler is receiving, and a send to player 1 is in flight on the
\* second channel.
C5_Witness ==
    /\ accepted = <<1, 1>>
    /\ 1 \in handlers \ broken
    /\ active_connections[1] = 2
    /\ \E c \in CallIds : calls[c].sending = <<1, 2>>

\* C10: when a send to player p fails inside send_personal_message,
\* broadcast_to_location, broadcast_to_alliance or broadcast_global, the call
\* does not raise, disconnect runs for p so that p is in no index, the send
\* is not started again, and no recipient of the broadcast is left unserved.
C10_SendFailureHandled ==
    (registry_op.kind \in {"personal", "location", "alliance", "global"}
        /\ registry_op.failed # {}) =>
        /\ registry_op.outcome # "raised"
        /\ registry_op.left = {}
        /\ registry_op.failed \subseteq registry_op.players
        /\ \A p \in registry_op.failed :
              /\ Holdings(Registry, p) = {}
              /\ \A c \in CallIds :
                    registry_op.ws # NoSocket => calls[c].sending # <<p, registry_op.ws>>

\* C2: in every committed state, for every vehicle, is_traveling is true if
\* and only if destination_id is set and estimated_arrival is set, after any
\* interleaving of start_travel requests, the tick's travel stage and the
\* process_vehicle_travel task.
C2_TravelFieldsAgree ==
    \A v \in Vehicles :
        vehicles[v].is_traveling <=>
            (vehicles[v].destination_id # NoLocation
                /\ vehicles[v].estimated_arrival # NoTime)

\* C2 witness: vehicle 1 has left location 1 and arrived at location 2, and
\* a start_travel request and a resolution of the same vehicle are both
\* awaiting their commits.
C2_Witness ==
    /\ vehicles[1].current_location_id = 2
    /\ \E s \in {"request_1", "request_2"} :
          /\ sessions[s] # ClosedSession
          /\ 1 \in DOMAIN sessions[s].mine.vehicle
    /\ \E s \in {"tick", "task"} :
          /\ sessions[s] # ClosedSession
          /\ 1 \in DOMAIN sessions[s].mine.vehicle

\* C3: after a player-vs-player exchange the declared winner is either none
\* or a side whose own durability is > 0 and whose opponent's durability is
\* 0; when both durabilities end at 0 no side that reached 0 is the winner.
C3_WinnerStands ==
    combat_result.winner_id # NoWinner =>
        \E w \in {combat_result.attacker, combat_result.target} :
            /\ combat_result.winner_id = w
            /\ fleet[w].durability > 0
            /\ \A l \in {combat_result.attacker, combat_result.target} \ {w} :
                  fleet[l].durability = 0

\* C7: a failure raised by a stage of a tick does not end the game loop: the
\* loop waits in its fixed backoff and, unless a stop or the shutdown has been
\* requested, then starts another tick; a loop ends only when is_running is
\* false or the server is shutting down.
C7_FailureDoesNotEndLoop ==
    /\ [](\A l \in LoopIds : loops[l].raised => loops[l].pc = "backoff")
    /\ [][\A l \in LoopIds :
            (loops[l].pc # "exited" /\ loops'[l].pc = "exited") =>
                (~is_running \/ shutdown # "serving")]_vars
    /\ \A l \in LoopIds :
          loops[l].raised ~> (~loops[l].raised \/ ~is_running \/ shutdown # "serving")

\* C7 witness: a loop is inside a tick that it started after the backoff
\* that followed a failed tick, with no stop requested.
C7_Witness ==
    \E l \in LoopIds :
        /\ loops[l].retried
        /\ loops[l].pc = "stage"
        /\ is_running
        /\ shutdown = "serving"

\* C8: external shutdown never aborts a tick in progress: no loop ends inside
\* a stage of a tick, for stop() and for the server's shutdown path alike.
C8_ShutdownLetsTickFinish ==
    \A l \in LoopIds : loops[l].aborted_stage = 0

\* C9: at most one tick is in progress at any time, after any sequence of
\* start() and stop() calls.
C9_SingleTick ==
    Cardinality({l \in LoopIds : loops[l].pc = "stage"}) <= 1

\* C11: a connect, disconnect or update_player_location that runs while a
\* broadcast is suspended at a send never makes the broadcast raise: no
\* broadcast ends with the error of an iterator whose collection changed.
C11_BroadcastNeverRaises ==
    registry_op.kind \in {"location", "alliance", "global"} =>
        registry_op.outcome # "raised"

\* C12: a client action that fails, a failed commit included, persists either
\* its full result or nothing: a failed attack_player leaves vehicles and
\* combat log as they were, and a successful one stores the durabilities, the
\* cargo that changed hands and the combat log together.
C12_AllOrNothing ==
    [][LET r == combat_result'
       IN  /\ r.outcome = "error" => (fleet' = fleet /\ combat_log' = combat_log)
           /\ (r.outcome = "ok" /\ <<fleet, combat_log>>' # <<fleet, combat_log>>) =>
                /\ combat_log' = CombatLog(r)
                /\ fleet'[r.attacker].food = fleet[r.attacker].food + r.cargo_gained
                /\ fleet'[r.target].food = fleet[r.target].food - r.cargo_gained]_vars

C14_ClientsLeaveMarketAlone ==
    [][request_seq' # request_seq => market_prices' = market_prices]_vars

\* C20: in every reachable state every market entry has supply >= 0 and
\* demand >= 0, after any sequence of economic updates and of buy_cargo and
\* sell_cargo requests with any integer quantity the endpoints accept.
C20_StockNonNegative ==
    \A k \in DOMAIN market_prices :
        market_prices[k].supply >= 0 /\ market_prices[k].demand >= 0

C16_HistoryWindow ==
    [][last_cycle' # last_cycle =>
          \A k \in MarketKeys :
              LET old == price_history[k]
                  new == price_history'[k]
                  t == last_cycle'
              IN  /\ \A ts \in DOMAIN new : ts > t - HISTORY_MINUTES
                  /\ \A ts \in DOMAIN old :
                        (ts > t - HISTORY_MINUTES /\ ts # t)
                            => (ts \in DOMAIN new /\ new[ts] = old[ts])
                  /\ t \in DOMAIN new
                  /\ new[t] = Snapshot(market_prices'[k])]_vars

C19_EnvelopeComplete ==
    \A i \in 1..Len(wire) : {"type", "data", "timestamp"} \subseteq DOMAIN wire[i]

\* C21: no location group and no alliance group of the registry is an empty
\* set
C21_NoEmptyGroup ==
    /\ \A l \in DOMAIN location_groups : location_groups[l] # {}
    /\ \A a \in DOMAIN alliance_groups : alliance_groups[a] # {}

\* C21: a disconnect has removed the last member of a location group and of
\* an alliance group, and both groups are gone
C21_Witness ==
    /\ registry_op.op = "disconnect"
    /\ {"location_group", "alliance_group"} \subseteq registry_op.had
    /\ location_groups = <<>>
    /\ alliance_groups = <<>>

C23_FailedStageOnlySkipped ==
    [][\A l \in LoopIds :
          (/\ loops[l].pc = "stage"
           /\ loops[l].stage < STAGES
           /\ ~loops[l].raised
           /\ loops'[l].raised)
          => (loops'[l].pc = "stage" /\ loops'[l].stage = loops[l].stage + 1)]_vars

\* C24: while the stop signal stands and no task is cancelled, a loop only
\* finishes the tick it is in, completes one sleep (the pause after a tick or
\* the pause after a failed tick) and then ends without starting another
\* tick; and unless start is called again, every loop does end
C24_StopEndsLoop ==
    /\ [][(~is_running /\ ~is_running' /\ shutdown = "serving") =>
             \A l \in LoopIds :
                 loops'[l] # loops[l] =>
                     /\ loops[l].pc \in {"stage", "sleep", "backoff"}
                     /\ loops[l].pc = "stage" =>
                           \/ loops'[l].pc = "stage" /\ loops'[l].stage = loops[l].stage + 1
                           \/ loops'[l].pc \in {"sleep", "backoff", "exited"}
                     /\ loops[l].pc \in {"sleep", "backoff"} => loops'[l].pc = "exited"]_vars
    /\ ~is_running ~> (is_running \/ \A l \in LoopIds : loops[l].pc \in {"idle", "exited"})

\* C24 witness: stop was called while a loop was running, no shutdown is under
\* way, and the loop has ended after the pause that followed a failed tick
C24_Witness ==
    /\ ~is_running
    /\ shutdown = "serving"
    /\ \E l \in LoopIds : loops[l].pc = "exited" /\ loops[l].aborted_stage = 0
    /\ \E l \in LoopIds : loops[l].pc = "backoff"

\* C25: a sweep of the index removes exactly the indexed events whose deadline
\* (start_time + duration_minutes) has passed, and every removed event that
\* has a row in the store is inactive in the store afterwards
C25_SweepExpiresEvents ==
    [][(/\ DOMAIN active_events' # DOMAIN active_events
        /\ DOMAIN active_events' \subseteq DOMAIN active_events) =>
          \A k \in DOMAIN active_events :
              LET event == active_events[k]
                  passed == event.start_time # NoTime
                               /\ now > event.start_time + event.duration_minutes
              IN  /\ passed <=> k \notin DOMAIN active_events'
                  /\ (passed /\ event.id \in DOMAIN game_events)
                        => ~game_events'[event.id].is_active]_vars

\* C26: when the commit of the travel stage succeeds, every vehicle the stage
\* selected is at rest at its former destination with the fields of the
\* journey cleared, its owner's row and the owner's registry entry name that
\* location, and every other vehicle is unchanged
C26_ArrivalsResolved ==
    [][(/\ sessions["tick"] # ClosedSession
        /\ sessions'["tick"] = ClosedSession
        /\ vehicles' # vehicles) =>
          \A v \in DOMAIN vehicles :
              IF v \in DOMAIN sessions["tick"].seen.vehicle
              THEN LET l == sessions["tick"].seen.vehicle[v].destination_id
                   IN  /\ ~vehicles'[v].is_traveling
                       /\ vehicles'[v].destination_id = NoLocation
                       /\ vehicles'[v].travel_start_time = NoTime
                       /\ vehicles'[v].estimated_arrival = NoTime
                       /\ vehicles'[v].current_location_id = l
                       /\ players'[Owner(v)].current_location_id = l
                       /\ Owner(v) \in DOMAIN player_locations'
                       /\ player_locations'[Owner(v)] = l
              ELSE vehicles'[v] = vehicles[v]]_vars

\* C27: a vehicle that the store shows on a journey to a location is later at
\* rest at that location, or is still on the road when the clock of the run
\* has stopped before its arrival
C27_JourneyCompletes ==
    \A v \in Convoy, l \in Locations :
        (vehicles[v].is_traveling /\ vehicles[v].destination_id = l)
        ~> \/ ~vehicles[v].is_traveling /\ vehicles[v].current_location_id = l
           \/ vehicles[v].is_traveling /\ vehicles[v].estimated_arrival > MaxEventTime

\* C28: a pirate_encounter message names a location whose danger level is
\* above 0 and carries that danger level, and a travel_complete message
\* carries the name of the location it names by id
C28_EncounterByDestination ==
    \A i \in 1..Len(wire) :
        /\ wire[i].type = "pirate_encounter" =>
              /\ DangerLevel(wire[i].data.location_id) > 0
              /\ wire[i].data.danger_level = DangerLevel(wire[i].data.location_id)
        /\ wire[i].type = "travel_complete" =>
              wire[i].data.location_name = wire[i].data.location_id

C30_NoCounterAfterKill ==
    [][(combat_result'.outcome = "ok" /\ fleet'[combat_result'.target].durability = 0)
          => fleet'[combat_result'.attacker].durability
                = fleet[combat_result'.attacker].durability]_vars

\* C31: an exchange the attacker wins moves floor(q / 4) units of the cargo
\* the defender carries from the defender's vehicle to the attacker's, so
\* that the two vehicles together carry what they carried before; an
\* exchange the attacker does not win changes no cargo
C31_LootMovesCargo ==
    [][combat_result'.outcome = "ok" =>
          LET a == combat_result'.attacker
              t == combat_result'.target
              stolen == IF combat_result'.winner_id = a THEN fleet[t].food \div 4 ELSE 0
          IN  /\ fleet'[t].food = fleet[t].food - stolen
              /\ fleet'[a].food = fleet[a].food + stolen
              /\ fleet'[a].food + fleet'[t].food = fleet[a].food + fleet[t].food]_vars

\* C32: an exchange the attacker wins adds the credits_gained of its result
\* to the attacking player's stored credits, and an exchange the attacker
\* does not win changes no player's credits
C32_RewardGranted ==
    [][combat_result'.outcome = "ok" =>
          LET a == combat_result'.attacker
          IN  IF combat_result'.winner_id = a
              THEN /\ combat_result'.credits_gained = 100
                   /\ credits'[a] = credits[a] + combat_result'.credits_gained
              ELSE credits' = credits]_vars

\* C33: a committed economic update moves the prices of an entry by its
\* supply/demand ratio after the random deltas: above 1.5 each price becomes
\* max(1, floor(0.95 * price)), below 0.7 each price is greater than before,
\* otherwise both prices stay; an entry with supply 200 and demand 50 takes
\* the decay branch whatever the deltas
C33_PriceFollowsRatio ==
    /\ \A supply_change \in -10..10, demand_change \in -10..10 :
          2 * (200 + supply_change) > 3 * (50 + demand_change)
    /\ [][(last_market_update' # last_market_update /\ last_cycle' = now) =>
             \A k \in DOMAIN market_prices :
                 LET old == market_prices[k]
                     new == market_prices'[k]
                     demand == IF new.demand > 1 THEN new.demand ELSE 1
                     floored(p) == IF (95 * p) \div 100 > 1 THEN (95 * p) \div 100 ELSE 1
                 IN  IF 2 * new.supply > 3 * demand
                     THEN /\ new.buy_price = floored(old.buy_price)
                          /\ new.sell_price = floored(old.sell_price)
                     ELSE IF 10 * new.supply < 7 * demand
                     THEN /\ new.buy_price > old.buy_price
                          /\ new.sell_price > old.sell_price
                     ELSE /\ new.buy_price = old.buy_price
                          /\ new.sell_price = old.sell_price]_vars

\* C34: the two location indices of the registry agree: player p is a member
\* of location_groups[l] exactly when player_locations[p] = l, so no player
\* is a member of two location groups
C34_LocationIndicesAgree ==
    /\ \A p \in Players, l \in Locations :
          (l \in DOMAIN location_groups /\ p \in location_groups[l])
              <=> (p \in DOMAIN player_locations /\ player_locations[p] = l)
    /\ \A p \in Players :
          Cardinality({l \in DOMAIN location_groups : p \in location_groups[l]}) <= 1

\* C34: update_player_location has just run for player 1, and players 1 and
\* 2 now share the group of location 1 while location 2 has no group
C34_Witness ==
    /\ registry_op.op = "update_location"
    /\ registry_op.players = {1}
    /\ player_locations = (1 :> 1 @@ 2 :> 1)
    /\ location_groups = (1 :> {1, 2})

\* C35: every player that is a member of a location group or of an alliance
\* group has an active connection
C35_GroupMembersConnected ==
    /\ \A l \in DOMAIN location_groups : location_groups[l] \subseteq DOMAIN active_connections
    /\ \A a \in DOMAIN alliance_groups : alliance_groups[a] \subseteq DOMAIN active_connections

\* C36: once player p is registered with a channel ws2 that superseded an
\* earlier channel of p, a step in which no new channel is connected, ws2
\* stays open and the handler of ws2 does not end leaves p registered with
\* ws2: neither the handler of the earlier channel ending nor a send failing
\* on the earlier channel removes it
C36_OldChannelKeepsNew ==
    [][\A p \in DOMAIN active_connections :
          LET ws2 == active_connections[p]
          IN  (/\ \E ws1 \in Channels : ws1 < ws2 /\ accepted[ws1] = p
               /\ accepted' = accepted
               /\ ws2 \notin broken'
               /\ ws2 \in connecting' \cup handlers')
                  => /\ p \in DOMAIN active_connections'
                     /\ active_connections'[p] = ws2]_vars

\* C37: the penalty of a mission is taken at most once: a player has lost no
\* more reputation than 2 points for each of its failed missions and no more
\* credits than the penalties of its failed missions add up to
C37_PenaltyOnce ==
    \A p \in Players :
        LET failed == {m \in MissionIds : missions[m].player_id = p /\ missions[m].status = "failed"}
            RECURSIVE total(_)
            total(ms) == IF ms = {} THEN 0
                         ELSE LET m == CHOOSE x \in ms : TRUE
                              IN  Penalty(missions[m]) + total(ms \ {m})
        IN  /\ reputation[p] >= InitialReputation - REPUTATION_PENALTY * Cardinality(failed)
            /\ credits[p] >= InitialCredits - total(failed)

\* C38: when the travel stage ends, every travel_complete message it sent
\* names a vehicle that the store records at rest at the location of the
\* message, and the registry entry of the vehicle's owner names a location
\* the store records for the owner
C38_NoticeOnlyForCommitted ==
    [][(sessions["tick"] # ClosedSession /\ sessions'["tick"] = ClosedSession) =>
          \A i \in 1..Len(wire) :
              wire[i].type = "travel_complete" =>
                  LET v == wire[i].data.vehicle_id
                  IN  /\ ~vehicles'[v].is_traveling
                      /\ vehicles'[v].current_location_id = wire[i].data.location_id
                      /\ player_locations'[Owner(v)] = players'[Owner(v)].current_location_id]_vars

\* C39: every player's credits are at least 0
C39_CreditsNonNegative ==
    \A p \in Players : credits[p] >= 0

\* C40: every quantity of a vehicle's cargo is at least 0 and the quantities
\* of a vehicle add up to at most its cargo capacity
C40_CargoWithinCapacity ==
    \A v \in Vehicles :
        /\ \A cargo_type \in DOMAIN current_cargo[v] : current_cargo[v][cargo_type] >= 0
        /\ CargoTotal(current_cargo[v]) <= CargoCapacity

====
